---- MODULE Spec2Model ----
(***************************************************************************)
(* Calendar engine of personal_schedule_agent: the event store of          *)
(* src/tools/calendar_db.py over the transactional session of              *)
(* src/storage/database.py, with the overlap scan of                       *)
(* src/tools/conflict_detector.py.                                         *)
(*                                                                         *)
(* An ISO-8601 time string is represented by the instant it denotes, an    *)
(* integer on a short time line; the columns start_time and end_time are   *)
(* DateTime(timezone=True) and hold that instant.  An Event row is a       *)
(* record [id, start, end, status]; the store is the set of committed      *)
(* rows.  A fresh uuid4 primary key is the next number of a counter.       *)
(*                                                                         *)
(* get_free_slots is modelled on a line of minutes divided into calendar   *)
(* days, and the langgraph loops of the specialist agents                  *)
(* (src/agents/scheduler.py, planning.py, summary.py) as a graph of an     *)
(* LLM node and a tool node over the message history.                      *)
(***************************************************************************)
EXTENDS Integers, FiniteSets, Sequences, TLC

\* ---- bounds of the model -------------------------------------------------
MaxTime == 2          \* instants are 0..MaxTime
MaxEvents == 2        \* at most this many rows are ever inserted
NumWriters == 2       \* concurrent sessions in SpecConc
NumDays == 2          \* SpecSlots: calendar days that hold events
MaxCalls == 2         \* SpecLoop: tool calls in one LLM response
RecursionLimit == 4   \* SpecLoop: node executions langgraph allows one invoke

Times == 0..MaxTime
Ids == 1..MaxEvents
Writers == 1..NumWriters

\* ---- values of the program ----------------------------------------------
NoTime == -1          \* an Optional[str] time field left at None
NoId == 0             \* no event id (exclude_event_id=None, no row created)
NoStatus == "None"    \* EventUpdate.status left at None
Statuses == {"confirmed", "tentative"}

VARIABLES
  store,       \* committed rows of table "events"
  nextId,      \* number of the next fresh primary key (uuid4 stands for it)
  result,      \* the last call: its name, id, force flag and what it returned or raised
  wpc,         \* SpecConc: per writer, position inside add_event
  wreq,        \* SpecConc: per writer, the payload of its add_event call
  wconf,       \* SpecConc: per writer, the conflicts its scan found
  wres,        \* SpecConc: per writer, status returned by its last call
  patch,       \* SpecPatch: the EventUpdate payload of the update that was made
  listed,      \* SpecList: the list_events call that was made and what it returned
  fres,        \* SpecSlots: the get_free_slots call that was made and what it returned
  agent,       \* SpecLoop: the specialist agent whose graph is run
  node,        \* SpecLoop: the node of the graph that runs next
  messages,    \* SpecLoop: state["messages"], the history
  steps,       \* SpecLoop: node executions of the current invoke
  reply,       \* SpecLoop: what the runner returned to its caller
  workflow_type, \* SpecFlow: the workflow MultiAgentRunner was built with
  wnode,       \* SpecFlow: the node of the workflow that runs next
  wmessages,   \* SpecFlow: self.state["messages"] of the runner
  current_intent, \* SpecFlow: self.state["current_intent"]
  decision,    \* SpecFlow: what check_user_confirmation returned in this invoke
  store_before, \* SpecFlow: the table as it was when process_input was called
  turns,       \* SpecFlow: process_input calls made
  wsteps,      \* SpecFlow: node executions of the planner graph in this invoke
  user_text,   \* SpecIntent: the text classify_intent is called on
  llm,         \* SpecIntent: what self.llm.invoke does on that call
  classified,  \* SpecIntent: what classify_intent returned or raised
  trace,       \* SpecFlow: self.state["trace"] of the runner
  out,         \* SpecFlow: what process_input returned to its caller
  invoked,     \* SpecFlow: the runner's state as graph.invoke was handed it
  aliased,     \* SpecFlow: whether a node is handed the graph's own lists
  retry,       \* SpecRetry: the caller of the LLM, the wrapper's loop and what came of it
  user_preferences, \* SpecPrefs: committed rows of table "user_preferences"
  vector_index, \* SpecPrefs: the entries of the vector store's collection
  uuids,       \* SpecPrefs: number of uuid4 values drawn so far
  retrieved,   \* SpecPrefs: the retrieve_preferences call that was made and its result
  memo,        \* SpecMemo: the dict _user_preferences of planning_agent_tools
  got,         \* SpecMemo: the get_preferences call that was made and its result
  tool_result  \* SpecCall: what call_scheduler_agent / call_summary_agent returned

vars == <<store, nextId, result, wpc, wreq, wconf, wres, patch, listed, fres,
          agent, node, messages, steps, reply,
          workflow_type, wnode, wmessages, current_intent, decision, store_before, turns, wsteps,
          user_text, llm, classified,
          trace, out, invoked, aliased,
          retry, user_preferences, vector_index, uuids, retrieved, memo, got, tool_result>>
seqVars == <<store, nextId, result>>
concVars == <<wpc, wreq, wconf, wres>>
loopVars == <<agent, node, messages, steps, reply>>
\* what the specifications of single calls record about the call, and the
\* agent loop; the calendar handlers leave them alone
flowVars == <<workflow_type, wnode, wmessages, current_intent, decision, store_before, turns, wsteps>>
intentVars == <<user_text, llm, classified>>
runVars == <<trace, out, invoked, aliased>>
\* the variables of the later components, as a group
prefVars == <<user_preferences, vector_index, uuids, retrieved>>
memoVars == <<memo, got>>
laterVars == <<retry, prefVars, memoVars, tool_result>>
extVars == <<runVars, laterVars>>
obsVars == <<patch, listed, fres, loopVars, flowVars, intentVars, extVars>>

Max(a, b) == IF a >= b THEN a ELSE b
Min(a, b) == IF a <= b THEN a ELSE b

IdsOf(events) == {e.id : e \in events}

\* class Event: the columns the calendar engine's decisions depend on
Event == [id : Ids, start : Times, end : Times, status : Statuses]

\* ---- conflict_detector.detect_conflicts -----------------------------------
\* a plausible slip: only a candidate that starts inside an event is caught
detect_conflicts_startInside(candidate_start, candidate_end, events, exclude_event_id) ==
  {event \in events :
     /\ ~(exclude_event_id # NoId /\ event.id = exclude_event_id)
     /\ event.start <= candidate_start
     /\ candidate_start < event.end}

\* a plausible slip: closed intervals, so touching events collide
detect_conflicts_closed(candidate_start, candidate_end, events, exclude_event_id) ==
  {event \in events :
     /\ ~(exclude_event_id # NoId /\ event.id = exclude_event_id)
     /\ Max(candidate_start, event.start) <= Min(candidate_end, event.end)}

detect_conflicts(candidate_start, candidate_end, events, exclude_event_id) ==
  {event \in events :
     /\ ~(exclude_event_id # NoId /\ event.id = exclude_event_id)
     /\ LET latest_start == Max(candidate_start, event.start)
            earliest_end == Min(candidate_end, event.end)
        IN latest_start < earliest_end}

\* ---- database.get_session -------------------------------------------------
\* `before` is the committed table, `after` the table with the session's
\* flushed changes; the block either commits or, on an exception, rolls back.
get_session_noRollback(before, after, fails) == after

get_session(before, after, fails) == IF fails THEN before ELSE after

\* what a call leaves in `result`
\* op, id and force are the call's name and arguments; start and end are the
\* candidate interval the handler computed (start_dt/end_dt, updated_start/
\* updated_end); status and conflicts are the returned dict; exc is the
\* exception that reached the caller instead of a return value; event is the
\* "event" entry of the returned dict.
Call(op, id, force, start, end, status, conflicts, exc, event) ==
  [op |-> op, id |-> id, force |-> force, start |-> start, end |-> end,
   status |-> status, conflicts |-> conflicts, exc |-> exc, event |-> event]

\* ---- calendar_db.serialize_event -----------------------------------------
\* the returned dict has no "event" entry
NoEvent == [id |-> NoId, start_time |-> NoTime, end_time |-> NoTime,
            status |-> NoStatus]

\* pendulum.instance(column).to_iso8601_string(): the ISO string of the
\* instant the column holds
to_iso8601_string(instant) == instant

serialize_event(event) ==
  LET start == event.start
      end == event.end
  IN [id |-> event.id,
      start_time |-> to_iso8601_string(start),
      end_time |-> to_iso8601_string(end),
      status |-> event.status]

\* a writer that is not inside a call holds no payload
NoPayload == [start_time |-> NoTime, end_time |-> NoTime, status |-> NoStatus]
\* no update has been made
NoPatch == [event_id |-> NoId, start_time |-> NoTime, end_time |-> NoTime,
            status |-> NoStatus]

\* no list_events call has been made
NoList == [status |-> "none", query |-> NoPayload, events |-> <<>>]

\* no get_free_slots call has been made
NoSlots == [status |-> "none", free_slots |-> <<>>, query |-> <<>>]

\* the reply of a runner, nothing returned yet: "messages" is the history
\* the reply carries, empty when the reply has no such key
NoReply == [status |-> "none", response |-> "", messages |-> <<>>]

\* MultiAgentRunner.__init__ apart from the choice of the workflow: the state
\* of the runner before any input (the system message is left out)
NoInput ==
  /\ wnode = "idle"
  /\ wmessages = <<>>
  /\ current_intent = ""
  /\ decision = "none"
  /\ store_before = {}
  /\ turns = 0
  /\ wsteps = 0

NoFlow == workflow_type = "full" /\ NoInput

\* process_input has not returned anything, no graph has been invoked
NoOut == [status |-> "none", intent |-> "", graph |-> "none"]
NoInvoke == [messages |-> <<>>, current_intent |-> "", trace |-> <<>>]
NoRun == trace = <<>> /\ out = NoOut /\ invoked = NoInvoke
\* nothing was called through the wrapper, the preference stores are empty,
\* no tool of the planner has returned
NoRetry ==
  [caller |-> "none", max_retries |-> 0, delay |-> 0, attempt |-> 0, invocations |-> 0,
   waits |-> <<>>, errors |-> <<>>, outcome |-> "none", raised |-> <<>>]
NoRetrieve == [user_id |-> "", query |-> FALSE, preferences |-> {}, status |-> "none"]
NoPrefs ==
  user_preferences = {} /\ vector_index = {} /\ uuids = 0 /\ retrieved = NoRetrieve
NoGot == [user_id |-> "", category |-> "", status |-> "none", preferences |-> {}]
NoMemo == memo = {} /\ got = NoGot
NoToolResult == [tool |-> "none", status |-> "none"]
NoLater == retry = NoRetry /\ NoPrefs /\ NoMemo /\ tool_result = NoToolResult
NoExt == NoRun /\ aliased = FALSE /\ NoLater

\* classify_intent has not been called
NoIntent == [intent |-> "none", confidence |-> 0, error |-> "", exc |-> "none"]
NoClassify == user_text = <<>> /\ llm = "none" /\ classified = NoIntent

\* no call has been made and no writer is inside one
NoCall ==
  /\ result = Call("none", NoId, FALSE, NoTime, NoTime, "none", {}, "none", NoEvent)
  /\ wpc = [w \in Writers |-> "idle"]
  /\ wreq = [w \in Writers |-> NoPayload]
  /\ wconf = [w \in Writers |-> {}]
  /\ wres = [w \in Writers |-> "none"]
  /\ patch = NoPatch
  /\ listed = NoList
  /\ fres = NoSlots
  /\ agent = "scheduler"
  /\ node = "idle"
  /\ messages = <<>>
  /\ steps = 0
  /\ reply = NoReply

\* init_db on a new database: the table is empty
Init ==
  /\ store = {}
  /\ nextId = 1
  /\ NoCall
  /\ NoExt
  /\ NoFlow
  /\ NoClassify

\* ---- inputs ------------------------------------------------------------
\* EventCreate: start_time, end_time (any two instants, also end <= start), status
EventCreate == [start_time : Times, end_time : Times, status : Statuses]
\* EventUpdate: event_id and the optional start_time, end_time, status
EventUpdate == [event_id : Ids, start_time : Times \cup {NoTime},
                end_time : Times \cup {NoTime}, status : Statuses \cup {NoStatus}]

\* session.get(Event, event_id)
session_get(events, event_id) == CHOOSE e \in events : e.id = event_id

\* ---- calendar_db.add_event ---------------------------------------------
add_event(payload, allow_overlap, fails) ==
  LET start_dt == payload.start_time
      end_dt == payload.end_time
      Ret(id, status, conflicts, exc, event) ==
        Call("add", id, allow_overlap, start_dt, end_dt, status, IdsOf(conflicts),
             exc, event)
  IN
  /\ UNCHANGED concVars
  /\ IF end_dt <= start_dt
     THEN \* raise ValueError, before any session is opened
          /\ ~fails
          /\ result' = Ret(NoId, "none", {}, "ValueError", NoEvent)
          /\ UNCHANGED <<store, nextId>>
     ELSE LET existing == store
              conflicts == detect_conflicts(start_dt, end_dt, existing, NoId)
          IN
          IF conflicts # {} /\ ~allow_overlap
          THEN /\ result' = IF fails
                             THEN Ret(NoId, "none", {}, "OperationalError", NoEvent)
                             ELSE Ret(NoId, "conflict", conflicts, "none", NoEvent)
               /\ store' = get_session(store, store, fails)
               /\ UNCHANGED nextId
          ELSE /\ nextId <= MaxEvents
               /\ LET event == [id |-> nextId, start |-> start_dt, end |-> end_dt,
                                status |-> payload.status]
                  IN
                  /\ store' = get_session(store, store \cup {event}, fails)
                  /\ nextId' = IF fails THEN nextId ELSE nextId + 1
                  /\ result' = IF fails
                                THEN Ret(NoId, "none", {}, "OperationalError", NoEvent)
                                ELSE Ret(event.id, "success", conflicts, "none",
                                         serialize_event(event))

\* ---- calendar_db.update_event ------------------------------------------
\* a plausible slip: a patch without a status writes the column's default
update_event_statusDefault(payload, allow_overlap, fails) ==
  LET Ret(start, end, status, conflicts, exc, event) ==
        Call("update", payload.event_id, allow_overlap, start, end,
             status, IdsOf(conflicts), exc, event)
  IN
  /\ UNCHANGED <<nextId, concVars>>
  /\ IF payload.event_id \notin IdsOf(store)
     THEN /\ result' = IF fails
                        THEN Ret(NoTime, NoTime, "none", {}, "OperationalError", NoEvent)
                        ELSE Ret(NoTime, NoTime, "not_found", {}, "none", NoEvent)
          /\ store' = get_session(store, store, fails)
     ELSE LET event == session_get(store, payload.event_id)
              updated_start == IF payload.start_time # NoTime
                               THEN payload.start_time ELSE event.start
              updated_end == IF payload.end_time # NoTime
                             THEN payload.end_time ELSE event.end
              Out(status, conflicts, exc, returned) ==
                Ret(updated_start, updated_end, status, conflicts, exc, returned)
          IN
          IF updated_end <= updated_start
          THEN \* raise ValueError inside the session block: rollback, re-raise
               /\ ~fails
               /\ result' = Out("none", {}, "ValueError", NoEvent)
               /\ store' = get_session(store, store, TRUE)
          ELSE LET existing == store
                   conflicts == detect_conflicts(updated_start, updated_end,
                                                 existing, event.id)
               IN
               IF conflicts # {} /\ ~allow_overlap
               THEN /\ result' = IF fails
                                  THEN Out("none", {}, "OperationalError", NoEvent)
                                  ELSE Out("conflict", conflicts, "none", NoEvent)
                    /\ store' = get_session(store, store, fails)
               ELSE LET updated ==
                          [id |-> event.id,
                           start |-> IF payload.start_time # NoTime
                                     THEN updated_start ELSE event.start,
                           end |-> IF payload.end_time # NoTime
                                   THEN updated_end ELSE event.end,
                           status |-> IF payload.status # NoStatus
                                      THEN payload.status ELSE "confirmed"]
                    IN
                    /\ store' = get_session(store, (store \ {event}) \cup {updated}, fails)
                    /\ result' = IF fails
                                  THEN Out("none", {}, "OperationalError", NoEvent)
                                  ELSE Out("success", conflicts, "none",
                                           serialize_event(updated))

update_event(payload, allow_overlap, fails) ==
  LET Ret(start, end, status, conflicts, exc, event) ==
        Call("update", payload.event_id, allow_overlap, start, end,
             status, IdsOf(conflicts), exc, event)
  IN
  /\ UNCHANGED <<nextId, concVars>>
  /\ IF payload.event_id \notin IdsOf(store)
     THEN /\ result' = IF fails
                        THEN Ret(NoTime, NoTime, "none", {}, "OperationalError", NoEvent)
                        ELSE Ret(NoTime, NoTime, "not_found", {}, "none", NoEvent)
          /\ store' = get_session(store, store, fails)
     ELSE LET event == session_get(store, payload.event_id)
              updated_start == IF payload.start_time # NoTime
                               THEN payload.start_time ELSE event.start
              updated_end == IF payload.end_time # NoTime
                             THEN payload.end_time ELSE event.end
              Out(status, conflicts, exc, returned) ==
                Ret(updated_start, updated_end, status, conflicts, exc, returned)
          IN
          IF updated_end <= updated_start
          THEN \* raise ValueError inside the session block: rollback, re-raise
               /\ ~fails
               /\ result' = Out("none", {}, "ValueError", NoEvent)
               /\ store' = get_session(store, store, TRUE)
          ELSE LET existing == store
                   conflicts == detect_conflicts(updated_start, updated_end,
                                                 existing, event.id)
               IN
               IF conflicts # {} /\ ~allow_overlap
               THEN /\ result' = IF fails
                                  THEN Out("none", {}, "OperationalError", NoEvent)
                                  ELSE Out("conflict", conflicts, "none", NoEvent)
                    /\ store' = get_session(store, store, fails)
               ELSE LET updated ==
                          [id |-> event.id,
                           start |-> IF payload.start_time # NoTime
                                     THEN updated_start ELSE event.start,
                           end |-> IF payload.end_time # NoTime
                                   THEN updated_end ELSE event.end,
                           status |-> IF payload.status # NoStatus
                                      THEN payload.status ELSE event.status]
                    IN
                    /\ store' = get_session(store, (store \ {event}) \cup {updated}, fails)
                    /\ result' = IF fails
                                  THEN Out("none", {}, "OperationalError", NoEvent)
                                  ELSE Out("success", conflicts, "none",
                                           serialize_event(updated))

\* ---- calendar_db.remove_event ------------------------------------------
\* a plausible slip: success is reported but the row is never deleted
remove_event_noDelete(event_id, fails) ==
  /\ UNCHANGED <<nextId, concVars, store>>
  /\ result' = Call("remove", event_id, FALSE, NoTime, NoTime,
                    IF event_id \in IdsOf(store) THEN "success" ELSE "not_found",
                    {}, "none", NoEvent)

remove_event(event_id, fails) ==
  LET Ret(status, exc) ==
        Call("remove", event_id, FALSE, NoTime, NoTime, status, {}, exc, NoEvent)
  IN
  /\ UNCHANGED <<nextId, concVars>>
  /\ IF event_id \notin IdsOf(store)
     THEN /\ result' = IF fails THEN Ret("none", "OperationalError")
                                ELSE Ret("not_found", "none")
          /\ store' = get_session(store, store, fails)
     ELSE LET event == session_get(store, event_id) IN
          /\ store' = get_session(store, store \ {event}, fails)
          /\ result' = IF fails THEN Ret("none", "OperationalError")
                                ELSE Ret("success", "none")

\* ---- calendar_db.get_event ---------------------------------------------
\* a plausible slip: the lookup ignores the key and returns the oldest row
get_event_firstRow(event_id) ==
  /\ UNCHANGED <<store, nextId, concVars>>
  /\ IF event_id \notin IdsOf(store)
     THEN result' = Call("get", event_id, FALSE, NoTime, NoTime, "not_found",
                         {}, "none", NoEvent)
     ELSE LET event == CHOOSE e \in store : \A x \in store : e.id <= x.id
          IN result' = Call("get", event_id, FALSE, NoTime, NoTime, "success",
                            {}, "none", serialize_event(event))

get_event(event_id) ==
  /\ UNCHANGED <<store, nextId, concVars>>
  /\ IF event_id \notin IdsOf(store)
     THEN result' = Call("get", event_id, FALSE, NoTime, NoTime, "not_found",
                         {}, "none", NoEvent)
     ELSE LET event == session_get(store, event_id)
          IN result' = Call("get", event_id, FALSE, NoTime, NoTime, "success",
                            {}, "none", serialize_event(event))

\* ---- sequential callers that never pass allow_overlap -----------------
Next ==
  \/ \E payload \in EventCreate :
       add_event(payload, FALSE, FALSE) /\ UNCHANGED obsVars
  \/ \E payload \in EventUpdate :
       update_event(payload, FALSE, FALSE) /\ UNCHANGED obsVars
  \/ \E event_id \in Ids : remove_event(event_id, FALSE) /\ UNCHANGED obsVars
  \/ \E event_id \in Ids : get_event(event_id) /\ UNCHANGED obsVars

Spec == Init /\ [][Next]_vars

\* ---- sequential callers that may force an add ----------------------------
NextForce ==
  \/ \E payload \in EventCreate, allow_overlap \in BOOLEAN :
       add_event(payload, allow_overlap, FALSE) /\ UNCHANGED obsVars
  \/ \E event_id \in Ids : remove_event(event_id, FALSE) /\ UNCHANGED obsVars
  \/ \E event_id \in Ids : get_event(event_id) /\ UNCHANGED obsVars

SpecForce == Init /\ [][NextForce]_vars

\* ---- sequential callers, the store may fail before the commit ------------
\* the updates here patch the times and leave the status alone
TimePatch == {payload \in EventUpdate : payload.status = NoStatus}

NextFault ==
  \/ \E payload \in EventCreate, fails \in BOOLEAN :
       add_event(payload, FALSE, fails) /\ UNCHANGED obsVars
  \/ \E payload \in TimePatch, fails \in BOOLEAN :
       update_event(payload, FALSE, fails) /\ UNCHANGED obsVars
  \/ \E event_id \in Ids, fails \in BOOLEAN :
       remove_event(event_id, fails) /\ UNCHANGED obsVars
  \/ \E event_id \in Ids : get_event(event_id) /\ UNCHANGED obsVars

SpecFault == Init /\ [][NextFault]_vars

\* ---- concurrent writers: add_event in two sessions ---------------------
\* Each writer thread has its own scoped session.  Nothing in add_event or
\* get_session locks the table or asks for a serializable transaction, so
\* another session may commit between a writer's SELECT and its INSERT.

\* add_event up to the conflict scan: validate, open the session, SELECT, scan
add_event_scan(w, payload) ==
  /\ wpc[w] = "idle"
  /\ UNCHANGED <<seqVars>>
  /\ IF payload.end_time <= payload.start_time
     THEN /\ wres' = [wres EXCEPT ![w] = "ValueError"]
          /\ UNCHANGED <<wpc, wreq, wconf>>
     ELSE LET existing == store
              conflicts == detect_conflicts(payload.start_time, payload.end_time,
                                            existing, NoId)
          IN
          /\ wreq' = [wreq EXCEPT ![w] = payload]
          /\ wconf' = [wconf EXCEPT ![w] = IdsOf(conflicts)]
          /\ wpc' = [wpc EXCEPT ![w] = "scanned"]
          /\ UNCHANGED wres

\* the rest of add_event with allow_overlap=False: return conflict, or
\* session.add, flush and the commit of get_session
add_event_write(w) ==
  /\ wpc[w] = "scanned"
  /\ wpc' = [wpc EXCEPT ![w] = "idle"]
  /\ wreq' = [wreq EXCEPT ![w] = NoPayload]
  /\ wconf' = [wconf EXCEPT ![w] = {}]
  /\ UNCHANGED result
  /\ IF wconf[w] # {}
     THEN /\ wres' = [wres EXCEPT ![w] = "conflict"]
          /\ UNCHANGED <<store, nextId>>
     ELSE /\ nextId <= MaxEvents
          /\ LET event == [id |-> nextId, start |-> wreq[w].start_time,
                           end |-> wreq[w].end_time, status |-> wreq[w].status]
             IN store' = store \cup {event}
          /\ nextId' = nextId + 1
          /\ wres' = [wres EXCEPT ![w] = "success"]

\* the writers create events with the default status of EventCreate
ConfirmedCreate == {payload \in EventCreate : payload.status = "confirmed"}

NextConc ==
  \/ \E w \in Writers, payload \in ConfirmedCreate :
       add_event_scan(w, payload) /\ UNCHANGED obsVars
  \/ \E w \in Writers : add_event_write(w) /\ UNCHANGED obsVars

SpecConc == Init /\ [][NextConc]_vars

\* ---- one call on a database that already holds events -------------------
\* the rows that earlier add_event calls, forced or not, have left: every
\* row has end > start, the keys are the first numbers of the counter
Rows == {payload \in EventCreate : payload.end_time > payload.start_time}

StoreOf(rows, n) ==
  {[id |-> i, start |-> rows[i].start_time, end |-> rows[i].end_time,
    status |-> rows[i].status] : i \in 1..n}

Stores == UNION {{StoreOf(rows, n) : rows \in [1..n -> Rows]} : n \in 0..MaxEvents}

InitStored ==
  /\ store \in Stores
  /\ nextId = Cardinality(store) + 1
  /\ NoCall
  /\ NoExt
  /\ NoFlow
  /\ NoClassify

\* one update_event call, its payload kept next to what it returned
NextPatch ==
  \E payload \in EventUpdate :
    /\ patch = NoPatch
    /\ update_event(payload, FALSE, FALSE)
    /\ patch' = payload
    /\ UNCHANGED <<extVars, intentVars, listed, fres, loopVars, flowVars>>

SpecPatch == InitStored /\ [][NextPatch]_vars

\* ---- calendar_db.list_events ---------------------------------------------
\* EventQuery: the optional start_time, end_time and status (tags left out)
EventQuery == [start_time : Times \cup {NoTime}, end_time : Times \cup {NoTime},
               status : Statuses \cup {NoStatus}]

\* the rows select(Event) with the WHERE clauses of the query matches
Matching(events, query) ==
  {e \in events :
     /\ (query.start_time # NoTime => e.start >= query.start_time)
     /\ (query.end_time # NoTime => e.end <= query.end_time)
     /\ (query.status # NoStatus => e.status = query.status)}

\* session.scalars(stmt).all() of a statement without ORDER BY: the rows come
\* in an order the statement does not determine
Orders(rows) ==
  {order \in [1..Cardinality(rows) -> rows] :
     \A i, j \in 1..Cardinality(rows) : i # j => order[i] # order[j]}

list_events(query, events) ==
  /\ listed = NoList
  /\ events \in Orders(Matching(store, query))
  /\ LET serialized == [i \in 1..Len(events) |-> serialize_event(events[i])]
     IN listed' = [status |-> "success", query |-> query, events |-> serialized]
  /\ UNCHANGED <<extVars, intentVars, store, nextId, result, concVars, patch, fres, loopVars, flowVars>>

NextList ==
  \E query \in EventQuery :
    \E events \in Orders(Matching(store, query)) : list_events(query, events)

SpecList == InitStored /\ [][NextList]_vars

\* ---- calendar_db.get_free_slots ------------------------------------------
\* Here an instant is a number of minutes on a line of calendar days, minute
\* 0 being 00:00 of day 0.  An ISO string given to get_free_slots is a
\* record [date, hour]: a date-only value ("2025-01-06") has hour NoTime, a
\* full value ("2025-01-06T12:00:00") has its hour of the day.
Days == 0..(NumDays - 1)

\* 00:00 of a day, as an instant
Midnight(day) == day * 24 * 60

\* parse_datetime: pendulum.parse reads a date-only value as 00:00 of the date
parse_datetime(value) ==
  Midnight(value.date) + (IF value.hour = NoTime THEN 0 ELSE value.hour * 60)

\* dt.replace(hour=hour, minute=0, second=0): the same date, another time
replace_hour(dt, hour) == Midnight(dt \div (24 * 60)) + hour * 60

\* FreeSlot(start_time, end_time, duration_minutes).to_dict()
FreeSlot(start_time, end_time, duration_minutes) ==
  [start |-> start_time, end |-> end_time, duration |-> duration_minutes]

\* select(Event).where(start_time >= start_dt, end_time <= end_dt,
\*                     status == "confirmed")
InRange(events, start_dt, end_dt) ==
  {e \in events : e.start >= start_dt /\ e.end <= end_dt /\ e.status = "confirmed"}

\* .order_by(Event.start_time): the rows as a sequence, earliest start first
RECURSIVE order_by_start_time(_)
order_by_start_time(rows) ==
  IF rows = {} THEN <<>>
  ELSE LET first == CHOOSE e \in rows :
                      \A x \in rows : e.start < x.start
                                        \/ (e.start = x.start /\ e.id <= x.id)
       IN <<first>> \o order_by_start_time(rows \ {first})

\* a plausible slip: the end of the slot is not clipped to the working hours
GapSlot_noEndClip(current_time, until, min_duration, work_start, work_end) ==
  IF current_time < until /\ until - current_time >= min_duration
  THEN LET slot_start == Max(current_time,
                             replace_hour(current_time, work_start))
           slot_end == until
           actual_duration == slot_end - slot_start
       IN IF slot_start < slot_end /\ actual_duration >= min_duration
          THEN <<FreeSlot(slot_start, slot_end, actual_duration)>>
          ELSE <<>>
  ELSE <<>>

\* the slot, if any, that the gap from current_time to `until` contributes
\* (the body shared by the loop and by the last gap)
GapSlot(current_time, until, min_duration, work_start, work_end) ==
  IF current_time < until /\ until - current_time >= min_duration
  THEN LET slot_start == Max(current_time,
                             replace_hour(current_time, work_start))
           slot_end == Min(until, replace_hour(current_time, work_end))
           actual_duration == slot_end - slot_start
       IN IF slot_start < slot_end /\ actual_duration >= min_duration
          THEN <<FreeSlot(slot_start, slot_end, actual_duration)>>
          ELSE <<>>
  ELSE <<>>

\* the loop `for event in events`, from the i-th event on
RECURSIVE Sweep(_, _, _, _, _)
Sweep(events, i, current_time, free_slots, query) ==
  IF i > Len(events)
  THEN [current_time |-> current_time, free_slots |-> free_slots]
  ELSE LET event_start == events[i].start
           event_end == events[i].end
       IN Sweep(events, i + 1, Max(current_time, event_end),
                free_slots \o GapSlot(current_time, event_start,
                                      query.min_duration_minutes,
                                      query.working_hours_start,
                                      query.working_hours_end),
                query)

\* a plausible slip: the gap after the last event is never looked at
free_slots_of_noLastGap(table, query) ==
  LET start_dt == parse_datetime(query.start_date)
      end_dt == parse_datetime(query.end_date)
  IN IF end_dt <= start_dt
     THEN [status |-> "error", free_slots |-> <<>>, query |-> query]
     ELSE LET events == order_by_start_time(InRange(table, start_dt, end_dt))
              swept == Sweep(events, 1, start_dt, <<>>, query)
              last == GapSlot(swept.current_time, end_dt,
                              query.min_duration_minutes,
                              query.working_hours_start,
                              query.working_hours_end)
          IN [status |-> "success", free_slots |-> swept.free_slots,
              query |-> query]

\* the dict get_free_slots returns for a table and a query
free_slots_of(table, query) ==
  LET start_dt == parse_datetime(query.start_date)
      end_dt == parse_datetime(query.end_date)
  IN IF end_dt <= start_dt
     THEN [status |-> "error", free_slots |-> <<>>, query |-> query]
     ELSE LET events == order_by_start_time(InRange(table, start_dt, end_dt))
              swept == Sweep(events, 1, start_dt, <<>>, query)
              last == GapSlot(swept.current_time, end_dt,
                              query.min_duration_minutes,
                              query.working_hours_start,
                              query.working_hours_end)
          IN [status |-> "success", free_slots |-> swept.free_slots \o last,
              query |-> query]

get_free_slots(query) ==
  /\ fres = NoSlots
  /\ fres' = free_slots_of(store, query)
  /\ UNCHANGED <<extVars, intentVars, store, nextId, result, concVars, patch, listed, loopVars, flowVars>>

\* ---- the tables and queries of SpecSlots ---------------------------------
\* the events of a day, by the hours they start and end after its 00:00: in
\* the morning, across noon, in the evening, and overnight into the next day
DayEvents == {<<10, 12>>, <<11, 13>>, <<18, 20>>, <<20, 32>>}

\* the rows that may be stored: each event of each day, confirmed, and one
\* tentative morning event on day 0
SlotRows ==
  {[start |-> Midnight(d) + h[1] * 60, end |-> Midnight(d) + h[2] * 60,
    status |-> "confirmed"] : d \in Days, h \in DayEvents}
  \cup {[start |-> Midnight(0) + 10 * 60, end |-> Midnight(0) + 12 * 60,
         status |-> "tentative"]}

\* keys in the order the rows were added, earliest start first
RECURSIVE Keyed(_, _)
Keyed(rows, id) ==
  IF rows = {} THEN {}
  ELSE LET first == CHOOSE r \in rows :
                      \A x \in rows :
                        r.start < x.start
                        \/ (r.start = x.start
                            /\ (r.status = "confirmed" \/ x.status = "tentative"))
       IN {[id |-> id, start |-> first.start, end |-> first.end,
            status |-> first.status]} \cup Keyed(rows \ {first}, id + 1)

SlotStores ==
  {Keyed(rows, 1) : rows \in {r \in SUBSET SlotRows : Cardinality(r) <= MaxEvents}}

InitSlots ==
  /\ store \in SlotStores
  /\ nextId = Cardinality(store) + 1
  /\ NoCall
  /\ NoExt
  /\ NoFlow
  /\ NoClassify

\* the ISO strings of the queries: a date alone, or a date with 12:00 or 20:00
IsoStrings == [date : 0..NumDays, hour : {NoTime, 12, 20}]

working_hours_start == 9
working_hours_end == 18
min_duration_minutes == 30

\* the arguments of a call: the defaults, or a morning-only window, with a
\* short, a long and an over-long minimum duration
SlotQueries ==
  {[start_date |-> s, end_date |-> e, min_duration_minutes |-> m,
    working_hours_start |-> w[1], working_hours_end |-> w[2]] :
     s \in IsoStrings, e \in IsoStrings,
     m \in {min_duration_minutes, 240, 600},
     w \in {<<working_hours_start, working_hours_end>>, <<8, 12>>}}

NextSlots == \E query \in SlotQueries : get_free_slots(query)

SpecSlots == InitSlots /\ [][NextSlots]_vars

\* ---- the agent loops: agents/scheduler.py, planning.py, summary.py -------
\* Each specialist agent is a langgraph StateGraph with an LLM node (entry
\* point), a ToolNode, a conditional edge out of the LLM node and a plain edge
\* from the ToolNode back to the LLM node.  The LLM and the tools are outside
\* the program: what they answer is a choice from small sets.
Agents == {"scheduler", "planning", "summary"}
Texts == {"a", "b"}
ToolStatuses == {"success", "error"}

HumanMessage(content) ==
  [type |-> "human", content |-> content, tool_calls |-> <<>>, tool_call_id |-> 0]
SystemMessage(content) ==
  [type |-> "system", content |-> content, tool_calls |-> <<>>, tool_call_id |-> 0]
\* tool_calls: the ids of the calls the LLM asks for, in the order it asks
AIMessage(content, tool_calls) ==
  [type |-> "ai", content |-> content, tool_calls |-> tool_calls, tool_call_id |-> 0]
\* the message ToolNode appends for one call: the tool's status, the call's id
ToolMessage(content, tool_call_id) ==
  [type |-> "tool", content |-> content, tool_calls |-> <<>>,
   tool_call_id |-> tool_call_id]

\* what llm_with_tools.invoke may answer: a text and up to MaxCalls calls
Responses ==
  {AIMessage(content, [i \in 1..n |-> i]) : content \in Texts, n \in 0..MaxCalls}

\* a plausible slip: the route is taken from the text of the answer, an
\* answer with no text being taken for a tool request
should_continue_onContent(state_messages) ==
  LET last_message == state_messages[Len(state_messages)]
  IN IF last_message.type = "ai" /\ last_message.content # "a"
     THEN "tools" ELSE "end"

\* should_continue / _should_continue_summary: the route out of the LLM node
should_continue(state_messages) ==
  LET last_message == state_messages[Len(state_messages)]
  IN IF last_message.type = "ai" /\ last_message.tool_calls # <<>>
     THEN "tools" ELSE "end"

\* process / generate_summary up to graph.invoke: the initial state
process(which, user_input) ==
  /\ node = "idle"
  /\ agent' = which
  /\ messages' = IF which = "summary"
                 THEN <<SystemMessage("SUMMARY_PROMPT"), HumanMessage(user_input)>>
                 ELSE <<HumanMessage(user_input)>>
  /\ node' = "agent"
  /\ steps' = 0
  /\ reply' = NoReply
  /\ UNCHANGED <<extVars, intentVars, seqVars, concVars, patch, listed, fres, flowVars>>

\* agent_node / run_summary followed by the conditional edge; on "end" the
\* graph is done and the runner returns the content of the last message
agent_node(response) ==
  /\ node = "agent"
  /\ steps < RecursionLimit
  /\ steps' = steps + 1
  /\ messages' = Append(messages, response)
  /\ IF should_continue(messages') = "tools"
     THEN /\ node' = "tools"
          /\ UNCHANGED reply
     ELSE /\ node' = "END"
          /\ LET final_message == messages'[Len(messages')]
             IN reply' = [status |-> "success", response |-> final_message.content,
                          messages |-> messages']
  /\ UNCHANGED <<extVars, intentVars, agent, seqVars, concVars, patch, listed, fres, flowVars>>

\* a plausible slip: a failed call ends the run instead of being reported
\* back to the LLM node
tool_node_endOnError(statuses) ==
  /\ node = "tools"
  /\ steps < RecursionLimit
  /\ steps' = steps + 1
  /\ LET last_message == messages[Len(messages)]
     IN /\ DOMAIN statuses = 1..Len(last_message.tool_calls)
        /\ messages' = messages \o
             [i \in 1..Len(last_message.tool_calls) |->
                ToolMessage(statuses[i], last_message.tool_calls[i])]
  /\ node' = IF \E i \in DOMAIN statuses : statuses[i] = "error"
             THEN "END" ELSE "agent"
  /\ UNCHANGED <<extVars, intentVars, agent, reply, seqVars, concVars, patch, listed, fres, flowVars>>

\* tool_node / ToolNode: every requested call is run, one ToolMessage each,
\* then the plain edge back to the LLM node
tool_node(statuses) ==
  /\ node = "tools"
  /\ steps < RecursionLimit
  /\ steps' = steps + 1
  /\ LET last_message == messages[Len(messages)]
     IN /\ DOMAIN statuses = 1..Len(last_message.tool_calls)
        /\ messages' = messages \o
             [i \in 1..Len(last_message.tool_calls) |->
                ToolMessage(statuses[i], last_message.tool_calls[i])]
  /\ node' = "agent"
  /\ UNCHANGED <<extVars, intentVars, agent, reply, seqVars, concVars, patch, listed, fres, flowVars>>

\* langgraph stops an invoke that needs more node executions than its
\* recursion limit by raising GraphRecursionError; process catches every
\* exception and returns status error, generate_summary lets it through
recursion_error ==
  /\ node \in {"agent", "tools"}
  /\ steps >= RecursionLimit
  /\ node' = "error"
  /\ reply' = [status |-> IF agent = "summary" THEN "raised" ELSE "error",
               response |-> "GraphRecursionError", messages |-> <<>>]
  /\ UNCHANGED <<extVars, intentVars, agent, messages, steps, seqVars, concVars, patch, listed, fres, flowVars>>

NextLoop ==
  \/ \E which \in Agents, user_input \in Texts : process(which, user_input)
  \/ \E response \in Responses : agent_node(response)
  \/ \E n \in 1..MaxCalls : \E statuses \in [1..n -> ToolStatuses] :
       tool_node(statuses)
  \/ recursion_error

SpecLoop == Init /\ [][NextLoop]_vars

\* ---- the feedback gate: agents/orchestrator.py check_user_confirmation ----
\* An utterance is the sequence of its words; `word in content` is taken at
\* the grain of words.  The words of the source, transliterated:
\*   queren 确认, tongyi 同意, haode 好的, keyi 可以, yes, ok
\*   xiugai 修改, tiaozheng 调整, chongxin 重新, revise, change
\*   xuyao 需要 and plan stand for the words in neither list
ConfirmWords == {"queren", "tongyi", "haode", "keyi", "yes", "ok"}
ReviseWords == {"xiugai", "tiaozheng", "chongxin", "revise", "change"}
OtherWords == {"xuyao", "plan", "OK", "Revise"}
Words == ConfirmWords \cup ReviseWords \cup OtherWords

\* str.lower: only the Latin words of the vocabulary have upper-case letters
lower(content) ==
  [i \in DOMAIN content |->
     CASE content[i] = "OK" -> "ok"
       [] content[i] = "Revise" -> "revise"
       [] OTHER -> content[i]]

Contains(content, word) == \E i \in DOMAIN content : content[i] = word

\* a plausible slip: the revision words are looked for first
check_user_confirmation_reviseFirst(state_messages) ==
  LET last_message == state_messages[Len(state_messages)]
  IN IF last_message.type = "human"
     THEN LET content == lower(last_message.content)
          IN IF \E word \in ReviseWords : Contains(content, word)
             THEN "revise"
             ELSE IF \E word \in ConfirmWords : Contains(content, word)
                  THEN "confirmed"
                  ELSE "end"
     ELSE "end"

check_user_confirmation(state_messages) ==
  LET last_message == state_messages[Len(state_messages)]
  IN IF last_message.type = "human"
     THEN LET content == lower(last_message.content)
          IN IF \E word \in ConfirmWords : Contains(content, word)
             THEN "confirmed"
             ELSE IF \E word \in ReviseWords : Contains(content, word)
                  THEN "revise"
                  ELSE "end"
     ELSE "end"

\* the utterances of up to MaxWords words
MaxWords == 2
Utterances == UNION {[1..n -> Words] : n \in 0..MaxWords}

\* the states the function is called on, as in test_user_confirmation_check:
\* a history whose last message is of any type
Histories ==
  {<<m>> : m \in {HumanMessage(u) : u \in Utterances}
                 \cup {AIMessage(u, <<>>) : u \in Utterances}
                 \cup {SystemMessage(u) : u \in Utterances}}

InitConfirm ==
  /\ store = {} /\ nextId = 1
  /\ NoCall
  /\ NoExt
  /\ NoClassify
  /\ workflow_type = "planning" /\ wnode = "planner" /\ current_intent = ""
  /\ decision = "none" /\ store_before = {} /\ turns = 0 /\ wsteps = 0
  /\ wmessages \in Histories

\* the conditional edge out of "planner" evaluated on a state
feedback_edge ==
  /\ wnode = "planner"
  /\ decision = "none"
  /\ decision' = check_user_confirmation(wmessages)
  /\ wnode' = CASE decision' = "confirmed" -> "scheduler"
                [] decision' = "revise" -> "planner"
                [] decision' = "end" -> "END"
  /\ UNCHANGED <<extVars, intentVars, seqVars, concVars, patch, listed, fres, loopVars, workflow_type,
                 wmessages, current_intent, store_before, turns, wsteps>>

NextConfirm == feedback_edge

SpecConfirm == InitConfirm /\ [][NextConfirm]_vars

\* ---- the workflows: graph/workflow.py ------------------------------------
\* create_orchestrator_workflow ("full") and create_planning_workflow
\* ("planning") as their builder calls wire them.  The planner node is the
\* planning agent's graph, run one node at a time; the scheduler and summary
\* nodes are run whole.  What the LLM answers is a choice.
MaxTurns == 2
WorkflowTypes == {"full", "planning"}
\* what classify_intent may hand to the router; "error" and any other string
\* take the default route
Intents == {"scheduling", "planning", "summary", "preference", "unknown", "error"}
PlannerTools == {"call_scheduler_agent", "get_preferences"}
\* the task of the plan, as the event the scheduler is asked to add
PlannedTasks == {[start_time |-> 0, end_time |-> 1, status |-> "confirmed"]}
\* what the user may say: a confirmation, a revision request, anything else
FlowUtterances == {<<"queren">>, <<"xiugai">>, <<"xuyao", "plan">>}

InitFlow ==
  /\ store = {}
  /\ nextId = 1
  /\ NoCall
  /\ NoRun
  /\ aliased \in BOOLEAN
  /\ NoLater
  /\ NoClassify
  /\ workflow_type \in WorkflowTypes
  /\ NoInput

\* OrchestratorAgent.route_to_agent: routing_map.get(intent, "scheduler")
route_to_agent(intent) ==
  CASE intent = "scheduling" -> "scheduler"
    [] intent = "planning" -> "planner"
    [] intent = "summary" -> "summary"
    [] intent = "preference" -> "preference_manager"
    [] OTHER -> "scheduler"

\* a plausible slip: an unrecognised intent is sent to the planner
route_by_intent_defaultPlanner(intent) ==
  CASE intent = "scheduling" -> "scheduler"
    [] intent = "planning" -> "planner"
    [] intent = "summary" -> "summary"
    [] intent = "preference" -> "preference_manager"
    [] OTHER -> "planner"

\* route_by_intent: the path function of the conditional edge out of
\* "orchestrator", the same map over state["current_intent"]
route_by_intent(intent) ==
  CASE intent = "scheduling" -> "scheduler"
    [] intent = "planning" -> "planner"
    [] intent = "summary" -> "summary"
    [] intent = "preference" -> "preference_manager"
    [] OTHER -> "scheduler"

\* the path map of that conditional edge: the node each route leads to
orchestrator_edges(route) ==
  CASE route = "scheduler" -> "scheduler"
    [] route = "planner" -> "planner"
    [] route = "summary" -> "summary"
    [] route = "preference_manager" -> "scheduler"

\* MultiAgentRunner.process_input up to graph.invoke: the utterance is
\* appended to the history, a line to the trace, and the graph is run from
\* its entry point on that state
process_input(user_input) ==
  /\ wnode \in {"idle", "END", "error"}
  /\ turns < MaxTurns
  /\ turns' = turns + 1
  /\ wmessages' = Append(wmessages, HumanMessage(user_input))
  /\ trace' = Append(trace, "INPUT")
  /\ invoked' = [messages |-> wmessages', current_intent |-> current_intent,
                 trace |-> trace']
  /\ out' = NoOut
  /\ store_before' = store
  /\ decision' = "none"
  /\ wsteps' = 0
  /\ wnode' = IF workflow_type = "full" THEN "orchestrator" ELSE "planner"
  /\ UNCHANGED <<aliased, laterVars, intentVars, seqVars, concVars, patch, listed, fres, loopVars,
                 workflow_type, current_intent>>

\* the tail of process_input when graph.invoke returned: the closing trace
\* line, then success with the last AI message if the state has one
returned(state_messages, intent) ==
  IF \E i \in DOMAIN state_messages : state_messages[i].type = "ai"
  THEN [status |-> "success", intent |-> intent, graph |-> "returned"]
  ELSE [status |-> "error", intent |-> intent, graph |-> "returned"]

\* a node has run: when the workflow is at END, graph.invoke returns
graph_step(trace_now) ==
  IF wnode' = "END"
  THEN /\ trace' = Append(trace_now, "GRAPH")
       /\ out' = returned(wmessages', current_intent')
  ELSE /\ trace' = trace_now
       /\ out' = out

\* orchestrator_node followed by route_by_intent.  process_user_input
\* appends the utterance to state["messages"], the node appends its system
\* message and its trace line to the same lists, and returns the system
\* message as its update; what it did to the lists it was handed stays in
\* the graph's state when those lists are the graph's own.  The system
\* message reports the classification, its text is not looked at again.
orchestrator_node(intent) ==
  /\ wnode = "orchestrator"
  /\ wmessages[Len(wmessages)].type = "human"
  /\ LET user_input == wmessages[Len(wmessages)].content
         in_place == <<HumanMessage(user_input), SystemMessage(<<"intent">>)>>
     IN wmessages' = (IF aliased THEN wmessages \o in_place ELSE wmessages)
                       \o <<SystemMessage(<<"intent">>)>>
  /\ current_intent' = intent
  /\ wnode' = orchestrator_edges(route_by_intent(current_intent'))
  /\ graph_step(IF aliased THEN Append(trace, "ORCHESTRATOR") ELSE trace)
  /\ UNCHANGED <<invoked, aliased, laterVars, intentVars, seqVars, concVars, patch, listed, fres, loopVars,
                 workflow_type, decision, store_before, turns, wsteps>>

\* SchedulerAgent.process as the callers below see it: the scheduler's loop
\* runs to its end and may have added an event to the calendar on the way
scheduler_process ==
  \/ \E payload \in PlannedTasks : add_event(payload, FALSE, FALSE)
  \/ UNCHANGED <<seqVars, concVars>>

\* the planner graph's LLM node and its conditional edge; when the planner
\* is done, the workflow's edge out of "planner" is check_user_confirmation
planner_agent(tool_calls) ==
  /\ wnode = "planner"
  /\ wsteps < RecursionLimit
  /\ wsteps' = wsteps + 1
  /\ wmessages' = Append(wmessages, AIMessage(<<"plan">>, tool_calls))
  /\ IF should_continue(wmessages') = "tools"
     THEN /\ wnode' = "planner_tools"
          /\ UNCHANGED decision
     ELSE /\ decision' = check_user_confirmation(wmessages')
          /\ wnode' = CASE decision' = "confirmed" -> "scheduler"
                        [] decision' = "revise" -> "planner"
                        [] decision' = "end" -> "END"
  /\ UNCHANGED current_intent
  /\ graph_step(trace)
  /\ UNCHANGED <<invoked, aliased, laterVars, intentVars, seqVars, concVars, patch, listed, fres, loopVars,
                 workflow_type, store_before, turns>>

\* the planner graph's tool node: call_scheduler_agent runs the scheduler
\* agent on the request and reports success; the preference tools touch
\* only the in-memory preferences
planner_tools ==
  /\ wnode = "planner_tools"
  /\ wsteps < RecursionLimit
  /\ wsteps' = wsteps + 1
  /\ LET last_message == wmessages[Len(wmessages)]
         name == last_message.tool_calls[1]
     IN /\ IF name = "call_scheduler_agent"
           THEN scheduler_process
           ELSE UNCHANGED <<seqVars, concVars>>
        /\ wmessages' = Append(wmessages, ToolMessage("success", name))
  /\ wnode' = "planner"
  /\ UNCHANGED <<extVars, intentVars, patch, listed, fres, loopVars, workflow_type,
                 current_intent, decision, store_before, turns>>

\* a plausible slip: the error path starts the conversation afresh
planner_recursion_error_fresh ==
  /\ wnode \in {"planner", "planner_tools"}
  /\ wsteps >= RecursionLimit
  /\ wnode' = "error"
  /\ wmessages' = <<>>
  /\ current_intent' = invoked.current_intent
  /\ out' = [status |-> "error", intent |-> current_intent', graph |-> "raised"]
  /\ UNCHANGED <<trace, invoked, aliased, laterVars, intentVars, seqVars, concVars, patch, listed, fres,
                 loopVars, workflow_type, decision, store_before, turns, wsteps>>

\* the planner graph ran into langgraph's recursion limit: graph.invoke
\* raises, self.state stays the state the graph was handed (the trace list
\* with it) and process_input returns status error
planner_recursion_error ==
  /\ wnode \in {"planner", "planner_tools"}
  /\ wsteps >= RecursionLimit
  /\ wnode' = "error"
  /\ wmessages' = invoked.messages
  /\ current_intent' = invoked.current_intent
  /\ out' = [status |-> "error", intent |-> current_intent', graph |-> "raised"]
  /\ UNCHANGED <<trace, invoked, aliased, laterVars, intentVars, seqVars, concVars, patch, listed, fres,
                 loopVars, workflow_type, decision, store_before, turns, wsteps>>

\* the scheduler node, then the edge to END
scheduler_node ==
  /\ wnode = "scheduler"
  /\ scheduler_process
  /\ wmessages' = Append(wmessages, AIMessage(<<"done">>, <<>>))
  /\ wnode' = "END"
  /\ UNCHANGED current_intent
  /\ graph_step(trace)
  /\ UNCHANGED <<invoked, aliased, laterVars, intentVars, patch, listed, fres, loopVars, workflow_type,
                 decision, store_before, turns, wsteps>>

\* the summary node, then the edge to END
summary_node ==
  /\ wnode = "summary"
  /\ wmessages' = Append(wmessages, AIMessage(<<"summary">>, <<>>))
  /\ wnode' = "END"
  /\ UNCHANGED current_intent
  /\ graph_step(trace)
  /\ UNCHANGED <<invoked, aliased, laterVars, intentVars, seqVars, concVars, patch, listed, fres, loopVars,
                 workflow_type, decision, store_before, turns, wsteps>>

NextFlow ==
  \/ \E user_input \in FlowUtterances : process_input(user_input)
  \/ \E intent \in Intents : orchestrator_node(intent)
  \/ \E tool_calls \in {<<>>} \cup {<<name>> : name \in PlannerTools} :
       planner_agent(tool_calls)
  \/ planner_tools
  \/ planner_recursion_error
  \/ scheduler_node
  \/ summary_node

SpecFlow == InitFlow /\ [][NextFlow]_vars

\* ---- MultiAgentRunner.process_input over any graph -----------------------
\* self.graph is an attribute of the runner and graph.invoke is whatever
\* that object does: it raises, or it returns a state.  The returned state
\* holds no message, the messages it was handed, or those and an AI reply;
\* it holds some current_intent, and it holds a "trace" key or not.
GraphOutcomes ==
  [raises : BOOLEAN, messages : {"empty", "kept", "answered"},
   current_intent : Intents, has_trace : BOOLEAN]

RunnerHistories ==
  {<<>>, <<HumanMessage(<<"xuyao", "plan">>), AIMessage(<<"plan">>, <<>>)>>}

InitRunner ==
  /\ store = {} /\ nextId = 1
  /\ NoCall
  /\ NoClassify
  /\ NoExt
  /\ workflow_type = "full" /\ wnode = "idle" /\ current_intent = ""
  /\ decision = "none" /\ store_before = {} /\ turns = 0 /\ wsteps = 0
  /\ wmessages \in RunnerHistories

\* MultiAgentRunner.process_input, whole.  self.state is assigned the
\* returned state before the closing trace line is appended, so a returned
\* state without "trace" raises KeyError inside the try block and the
\* except branch answers from the returned state; state.get("trace", [])
\* of a state without the key is written as the empty trace.
process_input_on(user_input, invoke) ==
  /\ wnode = "idle"
  /\ turns' = turns + 1
  /\ LET handed == Append(wmessages, HumanMessage(user_input))
         handed_trace == Append(trace, "INPUT")
         state_messages ==
           CASE invoke.messages = "empty" -> <<>>
             [] invoke.messages = "kept" -> handed
             [] invoke.messages = "answered" -> Append(handed, AIMessage(<<"done">>, <<>>))
     IN /\ invoked' = [messages |-> handed, current_intent |-> current_intent,
                       trace |-> handed_trace]
        /\ IF invoke.raises
           THEN /\ wmessages' = handed
                /\ trace' = handed_trace
                /\ current_intent' = current_intent
                /\ out' = [status |-> "error", intent |-> current_intent, graph |-> "raised"]
                /\ wnode' = "error"
           ELSE /\ wmessages' = state_messages
                /\ current_intent' = invoke.current_intent
                /\ wnode' = "END"
                /\ IF invoke.has_trace
                   THEN /\ trace' = Append(handed_trace, "GRAPH")
                        /\ out' = returned(state_messages, invoke.current_intent)
                   ELSE /\ trace' = <<>>
                        /\ out' = [status |-> "error", intent |-> invoke.current_intent,
                                   graph |-> "returned"]
  /\ UNCHANGED <<aliased, laterVars, intentVars, seqVars, concVars, patch, listed, fres, loopVars,
                 workflow_type, decision, store_before, wsteps>>

NextRunner ==
  \E user_input \in FlowUtterances, invoke \in GraphOutcomes :
    process_input_on(user_input, invoke)

SpecRunner == InitRunner /\ [][NextRunner]_vars

\* ---- the intent router: agents/orchestrator.py classify_intent ------------
\* A text is the sequence of its words.  The keywords of the source,
\* transliterated, in the order of their lists:
\*   scheduling: tianjia 添加, shanchu 删除, xiugai 修改, gengxin 更新,
\*     huiyi 会议, yuehui 约会, shijian_event 事件, mingtian 明天, houtian 后天,
\*     xiazhou 下周, shijian_time 时间, jidian 几点, anpai 安排
\*   planning: guihua 规划, jihua 计划, anpai 安排, xuexijihua 学习计划,
\*     xiangmu 项目, renwu 任务, bangwo 帮我, zhiding 制定, sheji 设计, fenjie 分解
\*   summary: zongjie 总结, fenxi 分析, huigu 回顾, biaoxian 表现, tongji 统计,
\*     baogao 报告, benzhou 本周, benyue 本月, zhezhou 这周, zheyue 这月,
\*     zongjieyixia 总结一下
\*   preference: pianhao 偏好, xihuan 喜欢, xiguan 习惯, shezhi 设置, peizhi 配置,
\*     pianhao 偏好 (a second time), woxihuan 我喜欢, woxiguan 我习惯,
\*     gongzuoshijian 工作时间, xuexishijian 学习时间
scheduling_keywords ==
  <<"tianjia", "shanchu", "xiugai", "gengxin", "huiyi", "yuehui", "shijian_event",
    "mingtian", "houtian", "xiazhou", "shijian_time", "jidian", "anpai">>
planning_keywords ==
  <<"guihua", "jihua", "anpai", "xuexijihua", "xiangmu", "renwu", "bangwo",
    "zhiding", "sheji", "fenjie">>
summary_keywords ==
  <<"zongjie", "fenxi", "huigu", "biaoxian", "tongji", "baogao", "benzhou",
    "benyue", "zhezhou", "zheyue", "zongjieyixia">>
preference_keywords ==
  <<"pianhao", "xihuan", "xiguan", "shezhi", "peizhi", "pianhao", "woxihuan",
    "woxiguan", "gongzuoshijian", "xuexishijian">>

\* the keywords that are part of a longer keyword
Inside ==
  {<<"jihua", "xuexijihua">>, <<"zongjie", "zongjieyixia">>,
   <<"xihuan", "woxihuan">>, <<"xiguan", "woxiguan">>,
   <<"shijian_time", "gongzuoshijian">>, <<"shijian_time", "xuexishijian">>}

\* kw in user_input_lower: the keyword is a word of the text or part of one
KeywordIn(kw, text) ==
  \E i \in DOMAIN text : text[i] = kw \/ <<kw, text[i]>> \in Inside

\* sum(1 for kw in keywords if kw in user_input_lower)
Score(keywords, text) ==
  Cardinality({k \in DOMAIN keywords : KeywordIn(keywords[k], text)})

\* confidences are counted in tenths: 5 is 0.5, 8 is 0.8, 2 is 0.2
confidence_default == 5
confidence_cap == 8
confidence_per_match == 2

\* IntentResult; params carries at most the error message, reasoning is
\* left out; exc is the exception classify_intent let through, if any
IntentResult(intent, confidence, error) ==
  [intent |-> intent, confidence |-> confidence, error |-> error, exc |-> "none"]

\* the order of the scores dict, which max() goes through
ScoreOrder == <<"scheduling", "planning", "summary", "preference">>

\* _fallback_intent_classification: max(scores, key=scores.get) is the first
\* key, in the order of the dict, that has the highest score
fallback_intent_classification(user_input) ==
  LET scores == [k \in 1..4 |->
                   Score(CASE k = 1 -> scheduling_keywords
                           [] k = 2 -> planning_keywords
                           [] k = 3 -> summary_keywords
                           [] k = 4 -> preference_keywords, user_input)]
      best == CHOOSE k \in 1..4 :
                /\ \A j \in 1..4 : scores[j] <= scores[k]
                /\ \A j \in 1..(k - 1) : scores[j] < scores[k]
  IN IntentResult(ScoreOrder[best],
                  Min(confidence_cap, scores[best] * confidence_per_match), "")

\* What self.llm.invoke does, by what the rest of classify_intent makes of it:
\*   raise       the call fails with an exception
\*   not_json    the extracted text is no JSON: json.loads raises JSONDecodeError
\*   not_object  the extracted text is JSON but not an object (a number, a
\*               string, a list, null): intent_data.get raises AttributeError
\*   object      a JSON object; intent and confidence are <<>> when the key is
\*               missing and <<value>> when it is there
\* The fence and brace stripping that comes before json.loads is not modelled.
JsonNull == "null"
ReplyIntents == {"scheduling", "planning", "error", "chat", JsonNull}
ReplyConfidences == {0, 9, 15, -5}
LLMOutcomes ==
  {[kind |-> k, intent |-> <<>>, confidence |-> <<>>] :
     k \in {"raise", "not_json", "not_object"}}
  \cup {[kind |-> "object", intent |-> i, confidence |-> c] :
          i \in {<<>>} \cup {<<x>> : x \in ReplyIntents},
          c \in {<<>>} \cup {<<x>> : x \in ReplyConfidences}}

\* the outer `except Exception`
ErrorResult(message) == IntentResult("error", 0, message)

\* a plausible slip: the failure of the LLM call is not caught
classify_intent_noCatch(user_input, response) ==
  CASE response.kind = "raise" ->
         [intent |-> "none", confidence |-> 0, error |-> "", exc |-> "Exception"]
    [] response.kind = "not_json" -> fallback_intent_classification(user_input)
    [] response.kind = "not_object" -> ErrorResult("AttributeError")
    [] response.kind = "object" ->
         LET intent == IF response.intent = <<>> THEN "unknown"
                       ELSE response.intent[1]
             confidence == IF response.confidence = <<>> THEN confidence_default
                           ELSE response.confidence[1]
         IN IF intent = JsonNull THEN ErrorResult("ValidationError")
            ELSE IntentResult(intent, confidence, "")

classify_intent(user_input, response) ==
  CASE response.kind = "raise" -> ErrorResult("Exception")
    [] response.kind = "not_json" -> fallback_intent_classification(user_input)
    [] response.kind = "not_object" -> ErrorResult("AttributeError")
    [] response.kind = "object" ->
         LET intent == IF response.intent = <<>> THEN "unknown"
                       ELSE response.intent[1]
             confidence == IF response.confidence = <<>> THEN confidence_default
                           ELSE response.confidence[1]
         IN \* IntentResult(intent=None, ...) fails pydantic's validation
            IF intent = JsonNull THEN ErrorResult("ValidationError")
            ELSE IntentResult(intent, confidence, "")

\* the words a text is made of, and the texts of up to MaxWords + 1 words
TextWords ==
  {"mingtian", "huiyi", "anpai", "xuexijihua", "zongjie", "pianhao", "woxihuan",
   "gongzuoshijian", "nihao"}
UserTexts == UNION {[1..n -> TextWords] : n \in 0..(MaxWords + 1)}

InitIntent ==
  /\ store = {} /\ nextId = 1
  /\ NoCall
  /\ NoExt
  /\ NoFlow
  /\ user_text \in UserTexts
  /\ llm \in LLMOutcomes
  /\ classified = NoIntent

\* one call of classify_intent
classify ==
  /\ classified = NoIntent
  /\ classified' = classify_intent(user_text, llm)
  /\ UNCHANGED <<extVars, seqVars, concVars, patch, listed, fres, loopVars, flowVars,
                 user_text, llm>>

NextIntent == classify

SpecIntent == InitIntent /\ [][NextIntent]_vars

\* ---- calls of the LLM and utils/retry_helper.py --------------------------
\* An error message is the sequence of its words; `"429" in error_msg` and
\* `"rate limit" in error_msg.lower()` are taken at the grain of words.
MaxRetries == 3
\* the defaults of retry_on_rate_limit, which are the values of API_CONFIG
max_retries_default == 3
delay_default == 5
ErrorMessages ==
  {<<"Error", "code", "429">>, <<"Rate", "Limit", "exceeded">>, <<"rate", "limit">>,
   <<"limit", "rate">>, <<"timeout">>}
\* what the wrapped function, or llm_with_tools.invoke, does on one call
CallOutcomes == {<<>>} \cup ErrorMessages

\* str.lower on the words of the messages
message_lower(error_msg) ==
  [i \in DOMAIN error_msg |->
     CASE error_msg[i] = "Rate" -> "rate"
       [] error_msg[i] = "Limit" -> "limit"
       [] error_msg[i] = "Error" -> "error"
       [] OTHER -> error_msg[i]]

\* "429" in error_msg or "rate limit" in error_msg.lower()
is_rate_limit(error_msg) ==
  \/ \E i \in DOMAIN error_msg : error_msg[i] = "429"
  \/ \E i \in 1..(Len(error_msg) - 1) :
       /\ message_lower(error_msg)[i] = "rate"
       /\ message_lower(error_msg)[i + 1] = "limit"

\* a function wrapped by retry_on_rate_limit(max_retries, delay) is called,
\* or the scheduler's agent_node is about to call the LLM
InitRetry ==
  /\ store = {} /\ nextId = 1
  /\ NoCall /\ NoFlow /\ NoClassify
  /\ NoRun /\ aliased = FALSE
  /\ NoPrefs /\ NoMemo /\ tool_result = NoToolResult
  /\ \E caller \in {"wrapper", "agent_node"} :
       \E n \in 0..MaxRetries, d \in {1, delay_default} :
         /\ caller = "agent_node" => (n = max_retries_default /\ d = delay_default)
         /\ retry = [NoRetry EXCEPT !.caller = caller, !.max_retries = n, !.delay = d,
                                    !.outcome = "running"]

\* a plausible slip: every exception is retried while attempts remain
wrapper_attempt_anyError(outcome) ==
  /\ retry.caller = "wrapper"
  /\ retry.outcome = "running"
  /\ retry.attempt < retry.max_retries
  /\ LET called == [retry EXCEPT !.invocations = @ + 1]
     IN retry' =
          IF outcome = <<>>
          THEN [called EXCEPT !.outcome = "returned"]
          ELSE IF retry.attempt < retry.max_retries - 1
               THEN [called EXCEPT !.errors = Append(@, outcome),
                                   !.waits = Append(@, retry.delay * (retry.attempt + 1)),
                                   !.attempt = @ + 1]
               ELSE [called EXCEPT !.errors = Append(@, outcome),
                                   !.outcome = "raised", !.raised = outcome]
  /\ UNCHANGED <<runVars, prefVars, memoVars, tool_result, intentVars, seqVars, concVars,
                 patch, listed, fres, loopVars, flowVars>>

\* wrapper: one pass of `for attempt in range(max_retries)`: func is called;
\* it returns and the wrapper returns, or it raises and the wrapper sleeps
\* delay * (attempt + 1) and goes on, or re-raises
wrapper_attempt(outcome) ==
  /\ retry.caller = "wrapper"
  /\ retry.outcome = "running"
  /\ retry.attempt < retry.max_retries
  /\ LET called == [retry EXCEPT !.invocations = @ + 1]
     IN retry' =
          IF outcome = <<>>
          THEN [called EXCEPT !.outcome = "returned"]
          ELSE IF is_rate_limit(outcome) /\ retry.attempt < retry.max_retries - 1
               THEN [called EXCEPT !.errors = Append(@, outcome),
                                   !.waits = Append(@, retry.delay * (retry.attempt + 1)),
                                   !.attempt = @ + 1]
               ELSE [called EXCEPT !.errors = Append(@, outcome),
                                   !.outcome = "raised", !.raised = outcome]
  /\ UNCHANGED <<runVars, prefVars, memoVars, tool_result, intentVars, seqVars, concVars,
                 patch, listed, fres, loopVars, flowVars>>

\* wrapper: the loop ended without a return or a raise, which is the case
\* of an empty range; the wrapper raises its own exception
wrapper_exhausted ==
  /\ retry.caller = "wrapper"
  /\ retry.outcome = "running"
  /\ retry.attempt >= retry.max_retries
  /\ retry' = [retry EXCEPT !.outcome = "raised", !.raised = <<"retries", "failed">>]
  /\ UNCHANGED <<runVars, prefVars, memoVars, tool_result, intentVars, seqVars, concVars,
                 patch, listed, fres, loopVars, flowVars>>

\* agent_node of the scheduler: llm_with_tools.invoke is called as it is;
\* an exception leaves the graph and process returns status error
llm_invoke(outcome) ==
  /\ retry.caller = "agent_node"
  /\ retry.outcome = "running"
  /\ LET called == [retry EXCEPT !.invocations = @ + 1]
     IN retry' =
          IF outcome = <<>>
          THEN [called EXCEPT !.outcome = "returned"]
          ELSE [called EXCEPT !.errors = Append(@, outcome),
                              !.outcome = "error", !.raised = outcome]
  /\ UNCHANGED <<runVars, prefVars, memoVars, tool_result, intentVars, seqVars, concVars,
                 patch, listed, fres, loopVars, flowVars>>

NextRetry ==
  \/ \E outcome \in CallOutcomes : wrapper_attempt(outcome)
  \/ wrapper_exhausted
  \/ \E outcome \in CallOutcomes : llm_invoke(outcome)

SpecRetry == InitRetry /\ [][NextRetry]_vars

\* ---- the planner's agent tools: tools/planning_agent_tools.py -------------
\* call_scheduler_agent after agent.process(request) has come back: the
\* result is wrapped as status success whatever its own status is
call_scheduler_agent ==
  /\ agent = "scheduler"
  /\ reply # NoReply
  /\ tool_result = NoToolResult
  /\ tool_result' = [tool |-> "call_scheduler_agent",
                     status |-> IF reply.status = "raised" THEN "error" ELSE "success"]
  /\ UNCHANGED <<runVars, retry, prefVars, memoVars, intentVars, seqVars, concVars,
                 patch, listed, fres, loopVars, flowVars>>

\* call_summary_agent: the same wrapper; an exception of the summary agent
\* is caught and answered with status error
call_summary_agent ==
  /\ agent = "summary"
  /\ reply # NoReply
  /\ tool_result = NoToolResult
  /\ tool_result' = [tool |-> "call_summary_agent",
                     status |-> IF reply.status = "raised" THEN "error" ELSE "success"]
  /\ UNCHANGED <<runVars, retry, prefVars, memoVars, intentVars, seqVars, concVars,
                 patch, listed, fres, loopVars, flowVars>>

NextCall ==
  \/ NextLoop
  \/ call_scheduler_agent
  \/ call_summary_agent

SpecCall == Init /\ [][NextCall]_vars

\* ---- the planner's preference tools: tools/planning_agent_tools.py --------
\* _user_preferences is one dict of the module, from category to the entry;
\* the tools take no user.  A conversation is its user; an entry of memo
\* carries, beside what the dict holds, the conversation whose call wrote
\* it, which no operation reads.
Users == {"u1", "u2"}
Categories == {"work_time", "break_time"}
PreferenceTexts == {"morning", "evening"}
NoCategory == "None"

\* store_preference(category, preference, description) called in a
\* conversation: _user_preferences[category] = {...}
planning_store_preference(user_id, category, preference) ==
  /\ memo' = {e \in memo : e.category # category}
               \cup {[category |-> category, preference |-> preference, by |-> user_id]}
  /\ got' = NoGot
  /\ UNCHANGED <<runVars, retry, prefVars, tool_result, intentVars, seqVars, concVars,
                 patch, listed, fres, loopVars, flowVars>>

\* get_preferences(category=None) called in a conversation: the entry of
\* the category, or the whole dict
get_preferences(user_id, category) ==
  /\ got' = [user_id |-> user_id, category |-> category, status |-> "success",
             preferences |-> IF category # NoCategory
                             THEN {e \in memo : e.category = category}
                             ELSE memo]
  /\ UNCHANGED <<memo, runVars, retry, prefVars, tool_result, intentVars, seqVars, concVars,
                 patch, listed, fres, loopVars, flowVars>>

NextMemo ==
  \/ \E user_id \in Users, category \in Categories, preference \in PreferenceTexts :
       planning_store_preference(user_id, category, preference)
  \/ \E user_id \in Users, category \in Categories \cup {NoCategory} :
       get_preferences(user_id, category)

SpecMemo == Init /\ [][NextMemo]_vars

\* ---- the preference store: tools/preferences.py, storage/vector_store.py --
\* A row of table user_preferences and an entry of the vector store's
\* collection are records [id, user_id, preference_key, description]; a
\* uuid4 is the next number of the counter uuids.  The query text decides
\* only the order of the hits; with top_k = 5 and fewer entries than that
\* per user, the search returns every entry of the user.
PreferenceKeys == {"working_hours", "meeting_buffer"}
Descriptions == {"d1", "d2"}
Preference(id, user_id, preference_key, description) ==
  [id |-> id, user_id |-> user_id, preference_key |-> preference_key,
   description |-> description]

\* PreferenceVectorStore.add_preference: the entry gets a uuid4 of its own
add_preference(user_id, preference_key, description) ==
  /\ uuids' = uuids + 2
  /\ vector_index' = vector_index \cup
                       {Preference(uuids + 2, user_id, preference_key, description)}

\* PreferenceVectorStore.update_preference: the entry with that id, if the
\* collection has one, gets the new document
update_preference(preference_id, description) ==
  /\ vector_index' = {IF e.id = preference_id THEN [e EXCEPT !.description = description]
                      ELSE e : e \in vector_index}
  /\ UNCHANGED uuids

\* PreferenceVectorStore.search_preferences: where={"user_id": user_id}
search_preferences(user_id) == {e \in vector_index : e.user_id = user_id}

\* store_preference(user_id, preference_key, preference_value, description)
store_preference(user_id, preference_key, description) ==
  /\ LET existing == {p \in user_preferences :
                        p.user_id = user_id /\ p.preference_key = preference_key}
     IN IF existing # {}
        THEN LET row == CHOOSE p \in existing : TRUE
             IN /\ user_preferences' = (user_preferences \ {row})
                                         \cup {[row EXCEPT !.description = description]}
                /\ update_preference(row.id, description)
        ELSE /\ user_preferences' = user_preferences \cup
                   {Preference(uuids + 1, user_id, preference_key, description)}
             /\ add_preference(user_id, preference_key, description)
  /\ retrieved' = NoRetrieve
  /\ UNCHANGED <<runVars, retry, memoVars, tool_result, intentVars, seqVars, concVars,
                 patch, listed, fres, loopVars, flowVars>>

\* retrieve_preferences(user_id, query, preference_key): with a query the
\* hits of the vector search are looked up by their id in the table and the
\* rows found are returned; without one the rows are selected by user and key
retrieve_preferences(user_id, query, preference_key) ==
  /\ retrieved' =
       [user_id |-> user_id, query |-> query, status |-> "success",
        preferences |->
          IF query
          THEN {p \in user_preferences : \E e \in search_preferences(user_id) : p.id = e.id}
          ELSE {p \in user_preferences :
                  /\ p.user_id = user_id
                  /\ preference_key # "None" => p.preference_key = preference_key}]
  /\ UNCHANGED <<user_preferences, vector_index, uuids, runVars, retry, memoVars, tool_result,
                 intentVars, seqVars, concVars, patch, listed, fres, loopVars, flowVars>>

NextPrefs ==
  \/ \E user_id \in Users, preference_key \in PreferenceKeys, description \in Descriptions :
       store_preference(user_id, preference_key, description)
  \/ \E user_id \in Users : retrieve_preferences(user_id, TRUE, "None")
  \/ \E user_id \in Users, preference_key \in PreferenceKeys \cup {"None"} :
       retrieve_preferences(user_id, FALSE, preference_key)

SpecPrefs == Init /\ [][NextPrefs]_vars

\* ---- the scheduler agent's tools: tools/scheduler_agent_tools.py ----------
\* The older generation of the event operations: integer keys, status
\* "active" for a live event, any other string for one that is not.  The
\* rows are those of the store above, with these statuses.
ToolEventStatuses == {"active", "done"}
ToolRows ==
  {payload \in [start_time : Times, end_time : Times, status : ToolEventStatuses] :
     payload.end_time > payload.start_time}
ToolStores == UNION {{StoreOf(rows, n) : rows \in [1..n -> ToolRows]} : n \in 0..MaxEvents}

InitTool ==
  /\ store \in ToolStores
  /\ nextId = Cardinality(store) + 1
  /\ NoCall
  /\ NoExt
  /\ NoFlow
  /\ NoClassify

\* `with get_db() as db:` the session scope the tools open.  database.py
\* defines no get_db; the scope is the atomic transaction of the
\* specification: what was done is persisted when the block is left without
\* an exception, and nothing is when it is left by one.  No tool commits on
\* its own.
get_db(before, after, fails) == IF fails THEN before ELSE after

\* _check_conflicts: the active events that overlap [start_time, end_time)
check_conflicts(events, start_time, end_time, exclude_event_id) ==
  {e \in events :
     /\ e.status = "active"
     /\ e.start < end_time
     /\ e.end > start_time
     /\ (exclude_event_id # NoId => e.id # exclude_event_id)}

\* update_event(event_id, ..., start_time, end_time, ..., status, force) of
\* the tools; status stands for the fields assigned before the times are
\* looked at.  Every return is from inside the with block.
scheduler_update_event(event_id, start_time, end_time, status, force) ==
  LET found == {e \in store : e.id = event_id}
      event == CHOOSE e \in found : TRUE
      assigned == [event EXCEPT !.status = IF status # NoStatus THEN status ELSE @]
      new_start == IF start_time # NoTime THEN start_time ELSE event.start
      new_end == IF end_time # NoTime THEN end_time ELSE event.end
      conflicts == check_conflicts(store, new_start, new_end, event_id)
      moved == [assigned EXCEPT !.start = new_start, !.end = new_end]
      answer(st, found_conflicts) ==
        Call("scheduler_update_event", event_id, force, start_time, end_time, st,
             found_conflicts, "none", NoEvent)
  IN /\ IF found = {}
        THEN /\ store' = get_db(store, store, FALSE)
             /\ result' = answer("error", {})
        ELSE IF start_time # NoTime \/ end_time # NoTime
        THEN IF new_start >= new_end
             THEN /\ store' = get_db(store, (store \ {event}) \cup {assigned}, FALSE)
                  /\ result' = answer("error", {})
             ELSE IF conflicts # {} /\ ~force
             THEN /\ store' = get_db(store, (store \ {event}) \cup {assigned}, FALSE)
                  /\ result' = answer("error", IdsOf(conflicts))
             ELSE /\ store' = get_db(store, (store \ {event}) \cup {moved}, FALSE)
                  /\ result' = answer("success", IdsOf(conflicts))
        ELSE /\ store' = get_db(store, (store \ {event}) \cup {assigned}, FALSE)
             /\ result' = answer("success", {})
     /\ UNCHANGED <<nextId, concVars>>

\* one update_event call of the tools, its arguments kept next to the result
NextTool ==
  \E event_id \in Ids, start_time \in Times \cup {NoTime}, end_time \in Times \cup {NoTime},
     status \in ToolEventStatuses \cup {NoStatus}, force \in BOOLEAN :
    /\ patch = NoPatch
    /\ scheduler_update_event(event_id, start_time, end_time, status, force)
    /\ patch' = [event_id |-> event_id, start_time |-> start_time, end_time |-> end_time,
                 status |-> status]
    /\ UNCHANGED <<extVars, intentVars, listed, fres, loopVars, flowVars>>

SpecTool == InitTool /\ [][NextTool]_vars

\* ======================= properties ===================================
\* the overlap relation as the specification states it, on half-open intervals
Overlaps(a_start, a_end, b_start, b_end) ==
  Max(a_start, b_start) < Min(a_end, b_end)

Confirmed(events) == {e \in events : e.status = "confirmed"}

\* the stored events that overlap [s, e), other than the one with id `except`
Overlapping(events, s, e, except) ==
  {x \in events : x.id # except /\ Overlaps(s, e, x.start, x.end)}

\* in a step, the call that is being made (every call rewrites `result`)
IsAdd == result'.op = "add"
IsUpdate == result'.op = "update"
\* the event an update leaves out of its own conflict scan
Excluded == IF IsUpdate THEN result'.id ELSE NoId
\* the call computed a candidate interval and it is a valid one
ValidCandidate == result'.start # NoTime /\ result'.end > result'.start

\* C1: after any sequence of add, update and remove calls none of which
\* passed force, no two stored confirmed events have overlapping half-open
\* intervals.
C1_NoUnforcedOverlap ==
  \A a, b \in Confirmed(store) :
    a.id # b.id => ~Overlaps(a.start, a.end, b.start, b.end)

\* two confirmed events side by side, reached by an update that moved one
C1_Witness ==
  /\ Cardinality(Confirmed(store)) = 2
  /\ result.op = "update" /\ result.status = "success"
  /\ \E a, b \in Confirmed(store) : a.end = b.start /\ a.id = result.id

\* C2: with concurrent unforced writers, no interleaving leaves two
\* overlapping confirmed events in the store (the check-then-write of each
\* add is atomic with respect to the other writers).
C2_AtomicCheckThenWrite ==
  \A a \in Confirmed(store) :
    Overlapping(Confirmed(store), a.start, a.end, a.id) = {}

\* C3: an unforced add whose interval overlaps a stored confirmed event
\* returns status conflict with the overlapping events and persists nothing.
C3_ConflictPersistsNothing ==
  [][( /\ IsAdd /\ ~result'.force /\ ValidCandidate
       /\ Overlapping(Confirmed(store), result'.start, result'.end, NoId) # {} )
     => ( /\ result'.exc = "none"
          /\ result'.status = "conflict"
          /\ IdsOf(Overlapping(Confirmed(store), result'.start, result'.end, NoId))
               \subseteq result'.conflicts
          /\ result'.conflicts \subseteq
               IdsOf(Overlapping(store, result'.start, result'.end, NoId))
          /\ store' = store
          /\ nextId' = nextId )]_vars

\* an unforced add was refused because of a stored confirmed event
C3_Witness ==
  /\ result.op = "add" /\ ~result.force /\ result.status = "conflict"
  /\ \E e \in Confirmed(store) : e.id \in result.conflicts

\* C4: a forced add with end > start returns success, persists the new
\* event, and reports exactly the stored events overlapping the new interval.
C4_ForcedAddSucceeds ==
  [][( IsAdd /\ result'.force /\ ValidCandidate )
     => ( /\ result'.exc = "none"
          /\ result'.status = "success"
          /\ result'.id \notin IdsOf(store)
          /\ \E status \in Statuses :
               store' = store \cup {[id |-> result'.id, start |-> result'.start,
                                     end |-> result'.end, status |-> status]}
          /\ result'.conflicts =
               IdsOf(Overlapping(store, result'.start, result'.end, NoId)) )]_vars

\* a forced add went through over an event it overlaps
C4_Witness ==
  /\ result.op = "add" /\ result.force /\ result.status = "success"
  /\ \E n, e \in store :
       /\ n.id = result.id /\ e.id \in result.conflicts
       /\ Overlaps(n.start, n.end, e.start, e.end)

\* C5: an unforced update whose resulting interval overlaps another
\* confirmed event returns conflict and leaves the stored event's start and
\* end as they were.
C5_UpdateConflictKeepsTimes ==
  [][( /\ IsUpdate /\ ~result'.force
       /\ result'.id \in IdsOf(store)
       /\ Overlapping(Confirmed(store), result'.start, result'.end, result'.id) # {} )
     => ( /\ result'.exc = "none"
          /\ result'.status = "conflict"
          /\ LET ev == session_get(store, result'.id)
             IN \E after \in store' :
                  /\ after.id = ev.id
                  /\ after.start = ev.start
                  /\ after.end = ev.end )]_vars

\* an unforced update that asked for other times was refused because of
\* another confirmed event
C5_Witness ==
  /\ result.op = "update" /\ ~result.force /\ result.status = "conflict"
  /\ \E ev \in store :
       /\ ev.id = result.id
       /\ (ev.start # result.start \/ ev.end # result.end)
  /\ \E e \in Confirmed(store) : e.id \in result.conflicts /\ e.id # result.id

\* C6: conflict checking in add and update looks at confirmed events only: a
\* candidate that overlaps only tentative or cancelled events is persisted
\* with status success and those events are not reported as conflicts.
C6_OnlyConfirmedConflict ==
  [][( /\ (IsAdd \/ (IsUpdate /\ result'.id \in IdsOf(store)))
       /\ ValidCandidate
       /\ Overlapping(store, result'.start, result'.end, Excluded) # {}
       /\ Overlapping(Confirmed(store), result'.start, result'.end, Excluded) = {} )
     => ( /\ result'.status = "success"
          /\ result'.conflicts = {} )]_vars

\* C7: detect_conflicts returns exactly the events, other than the excluded
\* one, with max(starts) < min(ends); an event that only touches the
\* candidate at a boundary is never returned; the relation is symmetric.
C7_DetectConflictsExact ==
  /\ [][( (IsAdd \/ IsUpdate) /\ result'.status \in {"success", "conflict"} )
        => ( /\ result'.conflicts =
                  IdsOf(Overlapping(store, result'.start, result'.end, Excluded))
             /\ \A e \in store :
                  (e.end = result'.start \/ e.start = result'.end)
                    => e.id \notin result'.conflicts )]_vars
  /\ [](\A a, b \in store :
          (b \in detect_conflicts(a.start, a.end, {b}, NoId))
            <=> (a \in detect_conflicts(b.start, b.end, {a}, NoId)))

\* an add was refused by one event while another one touches its boundary
C7_Witness ==
  /\ result.op = "add" /\ result.status = "conflict"
  /\ \E e \in store : e.id \in result.conflicts
  /\ \E e \in store : e.end = result.start \/ e.start = result.end

\* C8: an add or update whose resulting end is not after its start yields a
\* validation error as a returned status, not as an exception, and the store
\* is unchanged.
C8_ValidationErrorReturned ==
  [][( /\ (IsAdd \/ IsUpdate)
       /\ result'.start # NoTime
       /\ result'.end <= result'.start )
     => ( /\ result'.exc = "none"
          /\ result'.status # "none"
          /\ store' = store )]_vars

\* C9: update, remove and get with an id that is not stored return not_found
\* and leave the store unchanged; a successful remove(id) takes the event
\* out, so that get(id) is not_found afterwards and later adds are never
\* reported to conflict with it.
C9_NotFoundAndRemove ==
  /\ [][ /\ ( result'.op \in {"update", "remove", "get"}
              /\ result'.id \notin IdsOf(store) )
            => ( /\ result'.exc = "none"
                 /\ result'.status = "not_found"
                 /\ store' = store )
         /\ ( result'.op = "remove" /\ result'.id \in IdsOf(store) )
            => ( /\ result'.status = "success"
                 /\ store' = {e \in store : e.id # result'.id} )
         /\ ( result'.op = "get" /\ result'.id \in IdsOf(store) )
            => result'.status = "success"
         /\ IsAdd => result'.conflicts \subseteq IdsOf(store) ]_vars
  /\ []( (result.op = "remove" /\ result.status = "success")
           => result.id \notin IdsOf(store) )

\* get of an id that was inserted and removed again, other events remaining
C9_Witness ==
  /\ result.op = "get" /\ result.status = "not_found"
  /\ result.id # NoId /\ result.id < nextId
  /\ store # {}

\* C10: a mutation that fails with an error before its transaction commits
\* is rolled back: the store is as it was before the call.
C10_FailureRollsBack ==
  [][( result'.op \in {"add", "update", "remove"} /\ result'.exc # "none" )
     => ( store' = store /\ nextId' = nextId )]_vars

\* an update to other times, which nothing stored conflicts with, failed
\* before the commit and the stored event still has its old times
C10_Witness ==
  /\ result.op = "update" /\ result.exc = "OperationalError"
  /\ result.start # NoTime /\ result.end > result.start
  /\ Overlapping(store, result.start, result.end, result.id) = {}
  /\ \E ev \in store :
       /\ ev.id = result.id
       /\ (ev.start # result.start \/ ev.end # result.end)

\* C11: a successful update changes exactly the fields the patch provides:
\* every field the patch leaves out keeps its previous value, a provided
\* field takes the patch's value, and no other stored event is modified.
C11_UpdateFrame ==
  [][( IsUpdate /\ result'.status = "success" )
     => LET ev == session_get(store, result'.id)
            after == session_get(store', result'.id)
        IN /\ patch'.event_id = ev.id
           /\ IdsOf(store') = IdsOf(store)
           /\ store' \ {after} = store \ {ev}
           /\ after.start = IF patch'.start_time = NoTime
                            THEN ev.start ELSE patch'.start_time
           /\ after.end = IF patch'.end_time = NoTime
                          THEN ev.end ELSE patch'.end_time
           /\ after.status = IF patch'.status = NoStatus
                             THEN ev.status ELSE patch'.status ]_vars

\* an update that gave only a new start went through on a tentative event,
\* which is still tentative, next to another stored event
C11_Witness ==
  /\ result.op = "update" /\ result.status = "success"
  /\ patch.start_time # NoTime /\ patch.end_time = NoTime
  /\ patch.status = NoStatus
  /\ Cardinality(store) = 2
  /\ \E ev \in store :
       /\ ev.id = patch.event_id
       /\ ev.start = patch.start_time
       /\ ev.status = "tentative"

C13_ListOrdered ==
  listed.status = "success"
    => /\ {listed.events[i].id : i \in 1..Len(listed.events)}
            = IdsOf(Matching(store, listed.query))
       /\ \A i, j \in 1..Len(listed.events) :
            i < j => listed.events[i].start_time <= listed.events[j].start_time

\* ---- free slots: the query that was made and the hours of its range ------
QueryStart == parse_datetime(fres.query.start_date)
QueryEnd == parse_datetime(fres.query.end_date)

\* every instant of the model is a whole hour: the hours [t, t + 60) of the
\* query range, by their first minute
RangeHours == {QueryStart + 60 * k : k \in 0..(((QueryEnd - QueryStart) \div 60) - 1)}

\* the hour at t lies in the working-hour window of its own day
WorkingHour(t) ==
  /\ replace_hour(t, fres.query.working_hours_start) <= t
  /\ t + 60 <= replace_hour(t, fres.query.working_hours_end)

BusyHour(t) == \E e \in Confirmed(store) : e.start <= t /\ t + 60 <= e.end

SlotHour(t) ==
  \E i \in 1..Len(fres.free_slots) :
    fres.free_slots[i].start <= t /\ t + 60 <= fres.free_slots[i].end

\* min_duration in whole hours, rounded up
MinHours == (fres.query.min_duration_minutes + 59) \div 60

\* the hours from t on are a stretch of free working time of min_duration
\* inside the range
FreeStretch(t) ==
  \A k \in 0..(MinHours - 1) :
    /\ t + 60 * k \in RangeHours
    /\ WorkingHour(t + 60 * k)
    /\ ~BusyHour(t + 60 * k)

\* C14: the returned slots and the stored confirmed events together cover
\* the working-hour-clipped query range, apart from gaps shorter than
\* min_duration, and the returned slots are pairwise disjoint.
C14_SlotsCoverRange ==
  fres.status = "success"
    => /\ \A t \in RangeHours :
            FreeStretch(t) => \E k \in 0..(MinHours - 1) : SlotHour(t + 60 * k)
       /\ \A i, j \in 1..Len(fres.free_slots) :
            i # j => ~Overlaps(fres.free_slots[i].start, fres.free_slots[i].end,
                               fres.free_slots[j].start, fres.free_slots[j].end)

\* C15: no returned slot overlaps a stored confirmed event, also when the
\* event starts before the query range or ends after it.
C15_SlotsAvoidEvents ==
  fres.status = "success"
    => \A i \in 1..Len(fres.free_slots) : \A e \in Confirmed(store) :
         ~Overlaps(fres.free_slots[i].start, fres.free_slots[i].end, e.start, e.end)

\* C16: every returned slot is at least min_duration long, lies inside the
\* query range and inside the working-hour window of its day.
C16_SlotsWellFormed ==
  fres.status = "success"
    => \A i \in 1..Len(fres.free_slots) :
         LET slot == fres.free_slots[i] IN
         /\ slot.end - slot.start >= fres.query.min_duration_minutes
         /\ slot.duration = slot.end - slot.start
         /\ QueryStart <= slot.start /\ slot.end <= QueryEnd
         /\ replace_hour(slot.start, fres.query.working_hours_start) <= slot.start
         /\ slot.end <= replace_hour(slot.start, fres.query.working_hours_end)

\* two slots were returned around a stored event: one from the start of the
\* working hours, one up to their end
C16_Witness ==
  /\ fres.status = "success" /\ Len(fres.free_slots) = 2
  /\ fres.free_slots[1].start
       = replace_hour(fres.free_slots[1].start, fres.query.working_hours_start)
  /\ fres.free_slots[2].end
       = replace_hour(fres.free_slots[2].start, fres.query.working_hours_end)
  /\ \E e \in Confirmed(store) :
       fres.free_slots[1].end = e.start /\ QueryEnd > fres.free_slots[2].end

\* the query range covers the working hours of one day and no more than
\* that day
OneWorkingDay ==
  LET day == QueryStart \div (24 * 60) IN
  /\ QueryStart <= replace_hour(QueryStart, fres.query.working_hours_start)
  /\ QueryEnd >= replace_hour(QueryStart, fres.query.working_hours_end)
  /\ QueryEnd <= Midnight(day + 1)

WholeWindow ==
  <<FreeSlot(replace_hour(QueryStart, fres.query.working_hours_start),
             replace_hour(QueryStart, fres.query.working_hours_end),
             (fres.query.working_hours_end - fres.query.working_hours_start) * 60)>>

\* C17 as stated: free_slots over an empty calendar for a range covering one
\* working day returns exactly one slot, from work_start to work_end.
C17_EmptyDayOneSlot ==
  (fres.status # "none" /\ store = {} /\ OneWorkingDay)
    => (fres.status = "success" /\ fres.free_slots = WholeWindow)

\* C17 amended: the same, when the working-hour window is at least
\* min_duration long; when it is shorter, no slot is returned.
C17_EmptyDayOneSlotIfLongEnough ==
  (fres.status # "none" /\ store = {} /\ OneWorkingDay)
    => /\ fres.status = "success"
       /\ fres.free_slots =
            IF (fres.query.working_hours_end - fres.query.working_hours_start) * 60
                 >= fres.query.min_duration_minutes
            THEN WholeWindow ELSE <<>>

\* the default query of one day, from its date to the next date, on an
\* empty calendar, answered with the one slot 09:00-18:00
C17_Witness ==
  /\ fres.status = "success" /\ store = {} /\ OneWorkingDay
  /\ fres.query.start_date.hour = NoTime /\ fres.query.end_date.hour = NoTime
  /\ fres.query.working_hours_start = working_hours_start
  /\ fres.query.working_hours_end = working_hours_end
  /\ fres.query.min_duration_minutes = min_duration_minutes
  /\ Len(fres.free_slots) = 1

\* C18: for a range that spans several days, the working-hour window is
\* recomputed for each day crossed: every day of the range with free working
\* time of at least min_duration contributes a slot inside its own window.
C18_EachDayContributes ==
  fres.status = "success"
    => \A day \in 0..NumDays :
         (\E t \in RangeHours : t \div (24 * 60) = day /\ FreeStretch(t))
           => \E i \in 1..Len(fres.free_slots) :
                /\ fres.free_slots[i].start
                     >= replace_hour(Midnight(day), fres.query.working_hours_start)
                /\ fres.free_slots[i].end
                     <= replace_hour(Midnight(day), fres.query.working_hours_end)

\* C19: a query whose start and end are the same date, both date-only, is a
\* valid single-day query: it returns status success, not an error.
C19_SameDateIsValid ==
  ( /\ fres.status # "none"
    /\ fres.query.start_date.hour = NoTime /\ fres.query.end_date.hour = NoTime
    /\ fres.query.start_date.date = fres.query.end_date.date )
    => fres.status = "success"

\* ---- the agent loops: REASON is the LLM node, ACT the ToolNode, DONE END --
\* in a step, the LLM node has run: it appended its answer to the history
Reasoned == node = "agent" /\ Len(messages') = Len(messages) + 1

\* C20: after a REASON step the loop enters ACT if and only if the step's
\* output holds at least one operation request; otherwise the loop ends in
\* DONE and the returned response is that step's text.  ACT is never entered
\* with an empty request list and DONE is never reached directly from ACT.
C20_ReasonRoutes ==
  [][ /\ Reasoned =>
           LET output == messages'[Len(messages')] IN
           /\ (node' = "tools") <=> (output.tool_calls # <<>>)
           /\ (output.tool_calls = <<>>)
                => ( /\ node' = "END"
                     /\ reply'.status = "success"
                     /\ reply'.response = output.content )
      /\ (node' = "tools") =>
           ( /\ node = "agent"
             /\ messages'[Len(messages')].type = "ai"
             /\ messages'[Len(messages')].tool_calls # <<>> )
      /\ (node = "tools") => (node' # "END") ]_vars

\* a loop that went through ACT and then ended in DONE, returning the text
\* of its last REASON step, which is not the text of the first one
C20_Witness ==
  /\ node = "END" /\ reply.status = "success"
  /\ reply.response = messages[Len(messages)].content
  /\ \E i, j \in 1..Len(messages) :
       /\ i < j
       /\ messages[i].type = "ai" /\ Len(messages[i].tool_calls) = 2
       /\ messages[i].content # reply.response
       /\ messages[j].type = "tool"

\* C21: a loop whose LLM node asks for another operation every time stops at
\* the iteration limit in an error reply that carries the accumulated history
AlwaysRequests ==
  \A i \in 1..Len(messages) : messages[i].type = "ai" => messages[i].tool_calls # <<>>

C21_LimitErrorCarriesTrace ==
  (node = "error" /\ AlwaysRequests)
    => /\ reply.status = "error"
       /\ reply.messages = messages

PlanningTurn == wnode \in {"planner", "planner_tools"} \/ decision # "none"

\* C23: as long as the feedback decision of a planning turn is not
\* "confirmed" the calendar holds what it held when the request came in; in
\* particular it does when the decision is "end"
C23_NoWriteBeforeConfirmation ==
  (PlanningTurn /\ decision # "confirmed") => store = store_before

\* C24: once the planner has produced its plan and the invoke is over, a
\* next utterance that is a confirmation makes the scheduler run next, and
\* one that asks for a revision makes the planner run next on the history
\* with that utterance
C24_NextUtteranceDecides ==
  [][ ( /\ wnode = "END" /\ decision # "none"
        /\ Len(wmessages') = Len(wmessages) + 1
        /\ wmessages'[Len(wmessages')].type = "human" )
        => LET answer == check_user_confirmation(wmessages')
           IN /\ answer = "confirmed" => wnode' = "scheduler"
              /\ answer = "revise" =>
                    wnode' = "planner" /\ wmessages' = Append(wmessages, wmessages'[Len(wmessages')]) ]_vars

\* the last message of the state is a user utterance that has one of `words`
\* in it, in any letter case
Says(words) ==
  LET last == wmessages[Len(wmessages)]
  IN /\ last.type = "human"
     /\ \E i \in DOMAIN last.content :
          last.content[i] \in words
            \/ (last.content[i] = "OK" /\ "ok" \in words)
            \/ (last.content[i] = "Revise" /\ "revise" \in words)

\* C25: check_user_confirmation answers on every state, with one of three
\* outcomes: confirmed when the last message is a user utterance with a
\* confirmation word, otherwise revise when it has a revision word, otherwise
\* end; and end whenever the last message is not a user utterance
C25_ThreeOutcomes ==
  decision # "none"
    => /\ decision \in {"confirmed", "revise", "end"}
       /\ decision = ( IF Says(ConfirmWords) THEN "confirmed"
                       ELSE IF Says(ReviseWords) THEN "revise"
                       ELSE "end" )
       /\ wmessages[Len(wmessages)].type # "human" => decision = "end"

\* an utterance with a revision word and then a confirmation word in it is
\* taken for a confirmation
C25_Witness ==
  /\ decision = "confirmed"
  /\ wmessages = <<HumanMessage(<<"xiugai", "queren">>)>>

\* C26: the bare acknowledgement haode, with no confirmation such as queren
\* and no revision word, is classified end
C26_AcknowledgementEnds ==
  (decision # "none" /\ wmessages = <<HumanMessage(<<"haode">>)>>)
    => decision = "end"

\* the result the keyword scoring has to give on a text: the first intent,
\* in the order scheduling, planning, summary, preference, whose keyword
\* list has the most entries matching the text, with min(0.8, 0.2 * count)
MatchCount(which, text) ==
  Score(CASE which = "scheduling" -> scheduling_keywords
          [] which = "planning" -> planning_keywords
          [] which = "summary" -> summary_keywords
          [] which = "preference" -> preference_keywords, text)

IsKeywordResult(r, text) ==
  /\ \E k \in 1..4 :
       /\ r.intent = ScoreOrder[k]
       /\ \A j \in 1..4 : MatchCount(ScoreOrder[j], text) <= MatchCount(ScoreOrder[k], text)
       /\ \A j \in 1..(k - 1) : MatchCount(ScoreOrder[j], text) < MatchCount(ScoreOrder[k], text)
  /\ r.confidence = Min(8, 2 * MatchCount(r.intent, text))

Called == classified # NoIntent

\* the reply of the LLM cannot be read as a classification
Unparsable == llm.kind \in {"not_json", "not_object"} \/ (llm.kind = "object" /\ llm.intent = <<JsonNull>>)

\* C27: whenever the LLM's reply cannot be parsed as a classification,
\* classify returns the result of the keyword scoring
C27_UnparsableFallsBack ==
  (Called /\ Unparsable) => IsKeywordResult(classified, user_text)

\* a text is scheduling-only when it matches scheduling keywords and no other
SchedulingOnly(text) ==
  /\ MatchCount("scheduling", text) > 0
  /\ \A which \in {"planning", "summary", "preference"} : MatchCount(which, text) = 0

\* C28: with the LLM unavailable, a text that matches only scheduling
\* keywords is classified scheduling with a confidence above 0
C28_UnavailableFallsBack ==
  (Called /\ llm.kind = "raise" /\ SchedulingOnly(user_text))
    => classified.intent = "scheduling" /\ classified.confidence > 0

\* C29: classify_intent never raises; when the LLM call fails it returns
\* intent error with confidence 0 and the error message in params
C29_NeverRaises ==
  Called => /\ classified.exc = "none"
            /\ llm.kind = "raise" =>
                  /\ classified.intent = "error"
                  /\ classified.confidence = 0
                  /\ classified.error = "Exception"

C29_Witness ==
  /\ Called /\ llm.kind = "raise" /\ user_text = <<"mingtian", "huiyi">>
  /\ classified.intent = "error"

\* C30: for every reply of the LLM the result's intent is one of the six
\* and its confidence lies between 0 and 1
C30_ResultInRange ==
  Called => /\ classified.intent \in Intents
            /\ classified.confidence \in 0..10


\* C31: the orchestrator step dispatches intent scheduling to the scheduler,
\* planning to the planner, summary to the summary agent, preference to the
\* scheduler and every other intent value to the scheduler, and
\* route_to_agent names the same target as route_by_intent for that intent.
C31_RoutingTotalAndFixed ==
  [][wnode = "orchestrator" =>
       /\ wnode' = CASE current_intent' = "scheduling" -> "scheduler"
                      [] current_intent' = "planning" -> "planner"
                      [] current_intent' = "summary" -> "summary"
                      [] OTHER -> "scheduler"
       /\ route_to_agent(current_intent') = route_by_intent(current_intent')]_vars

\* an utterance classified as a preference request has reached the scheduler
C31_Witness ==
  /\ wnode = "scheduler"
  /\ current_intent = "preference"
  /\ wmessages[Len(wmessages)].type = "system"

IsPrefix(s, t) == Len(s) <= Len(t) /\ SubSeq(t, 1, Len(s)) = s

\* C37: without reset_state the history and the trace only grow by
\* appending: a process_input call appends to both, and when it has
\* returned, with success or with an error, the history and trace it handed
\* to the graph are prefixes of the history and trace the runner holds.
CallAppends ==
  wnode \in {"idle", "END", "error"} =>
    (IsPrefix(wmessages, wmessages') /\ IsPrefix(trace, trace'))
ReturnKeeps ==
  out # NoOut =>
    (IsPrefix(invoked.messages, wmessages) /\ IsPrefix(invoked.trace, trace))
HumanCount(state_messages) ==
  Cardinality({i \in DOMAIN state_messages : state_messages[i].type = "human"})

\* C38: once the orchestrator step has handled the submitted utterance, the
\* history holds one human message per submitted utterance: the step did
\* not append the utterance a second time.
C38_UtteranceOnce ==
  (workflow_type = "full" /\ wnode # "orchestrator") => HumanCount(wmessages) = turns

\* C33: when the graph completes without raising, process_input returns
\* status success with the resulting state's current_intent, also when
\* that state holds no AI message and no trace entry.
C33_CompletionIsSuccess ==
  out.graph = "returned" => (out.status = "success" /\ out.intent = current_intent)

\* C32: a reasoning call of a control loop that fails with a rate-limit
\* signal is retried: a scheduler turn that ended in the error result on a
\* rate-limit failure has called the LLM more than once.
C32_RateLimitIsRetried ==
  (retry.caller = "agent_node" /\ retry.outcome = "error" /\ is_rate_limit(retry.raised))
    => retry.invocations > 1

\* C36: a function wrapped by retry_on_rate_limit(max_retries, delay) is
\* invoked at most max_retries times; every invocation but the first
\* follows a rate-limit error; an error that is no rate-limit error is the
\* last thing that happens and is what the wrapper raises; a rate-limit
\* error on the last attempt is raised to the caller.
C36_RetryOnlyOnRateLimit ==
  retry.caller = "wrapper" =>
    /\ retry.invocations <= retry.max_retries
    /\ \A i \in 1..(retry.invocations - 1) :
         i \in DOMAIN retry.errors /\ is_rate_limit(retry.errors[i])
    /\ \A i \in DOMAIN retry.errors :
         ~is_rate_limit(retry.errors[i]) =>
           /\ i = retry.invocations
           /\ retry.outcome = "raised"
           /\ retry.raised = retry.errors[i]
    /\ (/\ Len(retry.errors) = retry.max_retries
        /\ retry.max_retries > 0) =>
           /\ retry.outcome = "raised"
           /\ retry.raised = retry.errors[retry.max_retries]

\* three attempts were made, the last rate-limit error went to the caller
C36_Witness ==
  /\ retry.caller = "wrapper"
  /\ retry.max_retries = 3
  /\ retry.invocations = 3
  /\ retry.outcome = "raised"
  /\ is_rate_limit(retry.raised)
  /\ retry.waits = <<retry.delay, 2 * retry.delay>>

\* C40: the result of call_scheduler_agent and of call_summary_agent has
\* status error whenever the sub-agent's own result has status error, and
\* status success only when the sub-agent's processing succeeded.
C40_ErrorIsPassedOn ==
  tool_result # NoToolResult =>
    /\ reply.status = "error" => tool_result.status = "error"
    /\ tool_result.status = "success" => reply.status = "success"

\* C39: what get_preferences returns in a user's conversation was stored in
\* that user's conversation, never in another user's.
C39_PreferencesPerUser ==
  \A e \in got.preferences : e.by = got.user_id

\* C34: after store_preference(user, key, ...) succeeded, a retrieval by
\* query for that user returns at least one preference: the ids the
\* similarity index returns resolve to the stored rows of the user.
C34_StoredIsRetrievable ==
  (/\ retrieved.status = "success"
   /\ retrieved.query
   /\ \E p \in user_preferences : p.user_id = retrieved.user_id)
    => retrieved.preferences # {}

\* C35: an update_event call of the scheduling agent that is rejected
\* because of a time conflict persists none of its patch: the table is as
\* it was before the call.
C35_RejectedPersistsNothing ==
  [][(/\ result'.op = "scheduler_update_event"
      /\ result'.status = "error"
      /\ result'.conflicts # {}) => store' = store]_vars
====
